---- MODULE Spec2Model ----
(***************************************************************************)
(* RFI-Scanner: the text-extraction cascade (Extractors/text_extractor.py),*)
(* the retry controller and row builder (workers.py: process_pdf) and the  *)
(* rule-based classifier (nlp/classifier.py, nlp/rules.py).                *)
(*                                                                         *)
(* A text is kept as the triple (lead, body, trail): the number of leading *)
(* whitespace characters, the number of characters that remain after       *)
(* str.strip(), and the number of trailing whitespace characters.  A text  *)
(* with body = 0 is whitespace only and is kept with trail = 0.            *)
(***************************************************************************)
EXTENDS Integers, Sequences, FiniteSets, TLC

\* ------------------------------------------------------------------ bounds
\* largest value of one category count drawn for _decide
MaxCount == 2
\* largest number of page images poppler renders for one document
MaxPages == 2
\* largest number of PDFs _discover_tasks finds
MaxTasks == 3
\* longest text, in tokens, drawn freely from the token samples
MaxWords == 2
\* largest number of sentences appended to a text
MaxReps == 2
\* longest string normalised
MaxStr == 5

\* ------------------------------------------------------- program constants
\* text_extractor.py: the "decent text" gate of the native backends
ACCEPT_LEN == 30
\* workers.py: MIN_OK_LEN
MIN_OK_LEN == 50
\* text_extractor.py: default OCR page limit ("ocr_max_pages or 10")
OCR_DEFAULT_PAGES == 10
\* workers.py: page limit of the forced second attempt, max(ocr_max_pages, 20)
RETRY_PAGES == 20
\* main.py line 43: the default of attempts, which every call uses
Attempts == 6

VARIABLES
    \* ---- environment
    RULES,          \* "module" when nlp/rules.py imported, "None" otherwise
    doc,            \* what each backend yields for this PDF, once it was read
    ocr_if_needed,  \* process_pdf argument
    ocr_max_pages,  \* process_pdf argument
    \* ---- extract_text_with_meta: the running invocation
    frame,          \* its arguments and locals (text, best, m1..m4)
    calls,          \* engines invoked by the running / last invocation, in order
    ret,            \* (text, meta) it returned
    \* ---- process_pdf
    pc,
    call,           \* number of cascade invocations started so far
    limits,         \* ocr_max_pages passed to each invocation, in order
    text, meta, attempts, forced, warnings,
    textFeat,       \* what the matchers find in the final text
    cls, out_of_scope, result,
    \* ---- _decide applied to drawn counts
    dpc, dc, dres, dres2,
    \* ---- run_local
    bpc,
    tasks,          \* what _discover_tasks returned
    limit, workers, \* run_local arguments (limit 0: None)
    all_tasks,      \* the tasks after the limit
    futures,        \* per submitted task: its state and, once finished, its result
    rows, audit,
    \* ---- the phrase matchers applied to a tokenised text
    mpc,
    mtext,          \* the text, as tokens
    mres,           \* what the matchers found in mtext
    mbase,          \* what they found before anything was appended
    reps, sks,      \* matched phrases / sketch references appended since
    \* ---- _normalize_space applied twice
    npc, ns, n1, n2,
    \* ---- _atomic_write
    apc,
    ai,             \* the loop variable i
    kind,
    target,         \* content of out_path
    target0,        \* its content when _atomic_write was called
    tmpfile,        \* content of the temporary file of this turn
    fb,             \* content of the fallback file
    aret,           \* what is returned, or the exception that leaves the function
    tries, nperm,   \* turns started / PermissionErrors caught so far
    left            \* temporary files of earlier turns still on disk

pvars == <<RULES, doc, ocr_if_needed, ocr_max_pages, frame, calls, ret, pc, call,
           limits, text, meta, attempts, forced, warnings, textFeat, cls,
           out_of_scope, result>>
dvars == <<dpc, dc, dres, dres2>>
bvars == <<bpc, tasks, limit, workers, all_tasks, futures, rows, audit>>
mvars == <<mpc, mtext, mres, mbase, reps, sks>>
nvars == <<npc, ns, n1, n2>>
avars == <<apc, ai, kind, target, target0, tmpfile, fb, aret, tries, nperm, left>>
vars == <<RULES, doc, ocr_if_needed, ocr_max_pages, frame, calls, ret, pc, call,
          limits, text, meta, attempts, forced, warnings, textFeat, cls,
          out_of_scope, result, dpc, dc, dres, dres2,
          bpc, tasks, limit, workers, all_tasks, futures, rows, audit,
          mpc, mtext, mres, mbase, reps, sks, npc, ns, n1, n2,
          apc, ai, kind, target, target0, tmpfile, fb, aret, tries, nperm, left>>

\* =================================================================== texts
Txt(l, b, t) == [lead |-> l, body |-> b, trail |-> t]
EmptyText == Txt(0, 0, 0)

\* len(s)
StrLen(s) == s.lead + s.body + s.trail

\* len(s.strip())
StripLen(s) == s.body

\* "\n".join([a, b]) for two texts
Join2(a, b) ==
    IF a.body = 0 /\ b.body = 0 THEN Txt(a.lead + 1 + b.lead, 0, 0)
    ELSE IF a.body = 0 THEN Txt(a.lead + 1 + b.lead, b.body, b.trail)
    ELSE IF b.body = 0 THEN Txt(a.lead, a.body, a.trail + 1 + b.lead)
    ELSE Txt(a.lead, a.body + a.trail + 1 + b.lead + b.body, b.trail)

\* "\n".join(parts)
RECURSIVE JoinLines(_)
JoinLines(parts) ==
    IF parts = <<>> THEN EmptyText
    ELSE IF Len(parts) = 1 THEN parts[1]
    ELSE Join2(parts[1], JoinLines(Tail(parts)))

Max(a, b) == IF a >= b THEN a ELSE b

\* ======================================================= nlp/classifier.py
StrongSignal == "StrongSignal"
MediumCombo == "MediumCombo"
DisciplineAndSketch == "Discipline+Sketch"
WeakSignal == "WeakSignal"
NegatedOnly == "NegatedOnly"
InsufficientSignal == "InsufficientSignal"

Bases == {StrongSignal, MediumCombo, DisciplineAndSketch, WeakSignal,
          NegatedOnly, InsufficientSignal}

CountRange == 0..MaxCount
Counts == [strong : CountRange, medium : CountRange, disc : CountRange,
           weak : CountRange, neg : CountRange, sk : CountRange,
           posx : CountRange]
ZeroCounts == [strong |-> 0, medium |-> 0, disc |-> 0, weak |-> 0, neg |-> 0,
               sk |-> 0, posx |-> 0]

Decision(req, basis, c) == [req |-> req, basis |-> basis, c |-> c]

\* ---- variants of the cascade, each with one rule changed
DecideRef(c) ==
    LET total == c.strong + c.medium + c.disc + c.weak + c.neg + c.sk + c.posx
    IN  IF total = 0 THEN Decision(FALSE, InsufficientSignal, c)
        ELSE IF c.neg > 0 /\ (c.strong = 0 /\ c.medium = 0)
             THEN Decision(FALSE, NegatedOnly, c)
        ELSE IF c.strong > 0 THEN Decision(TRUE, StrongSignal, c)
        ELSE IF c.medium >= 2 \/ (c.medium >= 1 /\ c.disc >= 1)
             THEN Decision(TRUE, MediumCombo, c)
        ELSE IF c.disc >= 2 /\ (c.sk > 0 \/ c.posx > 0)
             THEN Decision(TRUE, DisciplineAndSketch, c)
        ELSE IF c.weak > 0 THEN Decision(FALSE, WeakSignal, c)
        ELSE Decision(FALSE, InsufficientSignal, c)

\* the weak rule answers "requires revision"
_decide_WeakYes(c) ==
    IF DecideRef(c).basis = WeakSignal THEN Decision(TRUE, WeakSignal, c)
    ELSE DecideRef(c)

\* the negator rule without its "no strong, no medium" condition
_decide_NegFirst(c) ==
    IF c.neg > 0 THEN Decision(FALSE, NegatedOnly, c) ELSE DecideRef(c)

\* the negator rule tried after the discipline-and-sketch rule
_decide_NegAfterDisc(c) ==
    IF c.strong = 0 /\ c.medium = 0 /\ c.disc >= 2 /\ (c.sk > 0 \/ c.posx > 0)
    THEN Decision(TRUE, DisciplineAndSketch, c)
    ELSE DecideRef(c)

\* the medium rule without its "medium and discipline" alternative
_decide_MediumPairOnly(c) ==
    IF DecideRef(c).basis = MediumCombo /\ c.medium < 2
    THEN (IF c.disc >= 2 /\ (c.sk > 0 \/ c.posx > 0)
          THEN Decision(TRUE, DisciplineAndSketch, c)
          ELSE IF c.weak > 0 THEN Decision(FALSE, WeakSignal, c)
          ELSE Decision(FALSE, InsufficientSignal, c))
    ELSE DecideRef(c)

\* the discipline rule looking at sketch references only
_decide_SketchOnly(c) ==
    IF DecideRef(c).basis = DisciplineAndSketch /\ c.sk = 0
    THEN (IF c.weak > 0 THEN Decision(FALSE, WeakSignal, c)
          ELSE Decision(FALSE, InsufficientSignal, c))
    ELSE DecideRef(c)

\* the weak rule asking for more than one weak phrase
_decide_WeakOffByOne(c) ==
    IF DecideRef(c).basis = WeakSignal /\ c.weak = 1
    THEN Decision(FALSE, InsufficientSignal, c)
    ELSE DecideRef(c)

\* the medium rule asking for exactly two medium phrases
_decide_MediumExactlyTwo(c) ==
    IF DecideRef(c).basis = MediumCombo /\ c.medium > 2 /\ c.disc = 0
    THEN (IF c.weak > 0 THEN Decision(FALSE, WeakSignal, c)
          ELSE Decision(FALSE, InsufficientSignal, c))
    ELSE DecideRef(c)

\* the rule cascade of _decide (lines 69-77), on the counts c = _counts(t)
_decide(c) ==
    LET total == c.strong + c.medium + c.disc + c.weak + c.neg + c.sk + c.posx
    IN  IF total = 0 THEN Decision(FALSE, InsufficientSignal, c)
        ELSE IF c.neg > 0 /\ (c.strong = 0 /\ c.medium = 0)
             THEN Decision(FALSE, NegatedOnly, c)
        ELSE IF c.strong > 0 THEN Decision(TRUE, StrongSignal, c)
        ELSE IF c.medium >= 2 \/ (c.medium >= 1 /\ c.disc >= 1)
             THEN Decision(TRUE, MediumCombo, c)
        ELSE IF c.disc >= 2 /\ (c.sk > 0 \/ c.posx > 0)
             THEN Decision(TRUE, DisciplineAndSketch, c)
        ELSE IF c.weak > 0 THEN Decision(FALSE, WeakSignal, c)
        ELSE Decision(FALSE, InsufficientSignal, c)

NoDecision == [req |-> FALSE, basis |-> "unset", c |-> ZeroCounts]


\* ================================================ Extractors/text_extractor.py
Absent == [engine |-> "absent", ok |-> FALSE, pages |-> 0, error |-> "",
           first_page_error |-> ""]

\* ---- what the PDF libraries can yield for one document (the environment)
NativeTexts == {EmptyText, Txt(1, 0, 0), Txt(0, 10, 0), Txt(1, 29, 0),
                Txt(0, 30, 0), Txt(0, 49, 0), Txt(0, 50, 0)}
NativeOutcomes ==
    {[read |-> TRUE, ok |-> FALSE, text |-> EmptyText]}
    \cup {[read |-> TRUE, ok |-> TRUE, text |-> t] : t \in NativeTexts}
UnreadNative == [read |-> FALSE, ok |-> FALSE, text |-> EmptyText]

\* one rendered page: image_to_string raises, or yields a text
PageResults == {[err |-> TRUE, text |-> EmptyText],
                [err |-> FALSE, text |-> EmptyText],
                [err |-> FALSE, text |-> Txt(0, 20, 0)]}
PageSeqs == UNION {[1..n -> PageResults] : n \in 0..MaxPages}
\* dep: "ok", or the import of pdf2image fails, or convert_from_path raises
\* (poppler missing).  pytesseract itself is imported at module level (line 5),
\* so a running cascade always has it.
OcrOutcomes ==
    {[read |-> TRUE, dep |-> d, pages |-> <<>>] :
        d \in {"pdf2image_missing", "convert_error"}}
    \cup {[read |-> TRUE, dep |-> "ok", pages |-> ps] : ps \in PageSeqs}
UnreadOcr == [read |-> FALSE, dep |-> "ok", pages |-> <<>>]

UnreadDoc == [pymupdf |-> UnreadNative, pdfminer |-> UnreadNative,
              pdfplumber |-> UnreadNative, ocr |-> UnreadOcr]

\* a backend is a function of the file: a second read yields what the first did
NativeReads(engine) ==
    IF doc[engine].read THEN {doc[engine]} ELSE NativeOutcomes
OcrReads == IF doc.ocr.read THEN {doc.ocr} ELSE OcrOutcomes

\* ---- the three native readers: (text, meta), never raising
\* the except branch not recording the exception
NativeMeta_NoError(engine, o) ==
    [engine |-> engine, ok |-> o.ok, pages |-> 0, error |-> "",
     first_page_error |-> ""]
NativeMeta(engine, o) ==
    [engine |-> engine, ok |-> o.ok, pages |-> 0,
     error |-> IF o.ok THEN "" ELSE "Exception", first_page_error |-> ""]

_read_with_pymupdf(o) ==
    [text |-> IF o.ok THEN o.text ELSE EmptyText, meta |-> NativeMeta("pymupdf", o)]
_read_with_pdfminer(o) ==
    [text |-> IF o.ok THEN o.text ELSE EmptyText, meta |-> NativeMeta("pdfminer", o)]
_read_with_pdfplumber(o) ==
    [text |-> IF o.ok THEN o.text ELSE EmptyText, meta |-> NativeMeta("pdfplumber", o)]

\* ---- OCR
OcrMeta(ok, error, pages, fpe) ==
    [engine |-> "ocr", ok |-> ok, pages |-> pages, error |-> error,
     first_page_error |-> fpe]

PageOk(p) == ~p.err

\* the message of the exception image_to_string raised on page i
PageError(i) == "Exception@page" \o ToString(i)

\* "if not meta.get('first_page_error')": only the first failing page is kept
FirstFailing(pages) ==
    CHOOSE i \in 1..Len(pages) :
        pages[i].err /\ \A j \in 1..(i - 1) : ~pages[j].err

\* the page loop leaving at the first page that fails
RECURSIVE PageTexts_StopAtError(_)
PageTexts_StopAtError(ps) ==
    IF ps = <<>> THEN <<>>
    ELSE IF PageOk(ps[1]) THEN <<ps[1].text>> \o PageTexts_StopAtError(Tail(ps))
    ELSE <<>>

RECURSIVE PageTexts(_)
PageTexts(ps) ==
    IF ps = <<>> THEN <<>>
    ELSE IF PageOk(ps[1]) THEN <<ps[1].text>> \o PageTexts(Tail(ps))
    ELSE PageTexts(Tail(ps))

_ocr_with_pdf2image(o, max_pages) ==
    IF o.dep = "pdf2image_missing"
    THEN [text |-> EmptyText, meta |-> OcrMeta(FALSE, "pdf2image_missing", 0, "")]
    ELSE IF o.dep = "convert_error"
    THEN [text |-> EmptyText, meta |-> OcrMeta(FALSE, "Exception", 0, "")]
    ELSE IF o.pages = <<>>
    THEN [text |-> EmptyText, meta |-> OcrMeta(FALSE, "no_pages_from_poppler", 0, "")]
    ELSE
      LET lim   == IF max_pages # 0 THEN max_pages ELSE OCR_DEFAULT_PAGES
          pages == SubSeq(o.pages, 1, IF Len(o.pages) < lim THEN Len(o.pages) ELSE lim)
          fpe   == IF \E i \in 1..Len(pages) : pages[i].err
                   THEN PageError(FirstFailing(pages)) ELSE ""
      IN  [text |-> JoinLines(PageTexts(pages)),
           meta |-> OcrMeta(TRUE, "", Len(pages), fpe)]

\* ---- extract_text_with_meta
\* the returned dict; the first return spreads m1 into it (**m1), kept as .pymupdf
Meta(method, t, ocr_used, ocr_pages, m1, m2, m3, m4) ==
    [method |-> method, text_len |-> StrLen(t), ocr_used |-> ocr_used,
     ocr_pages |-> ocr_pages, pymupdf |-> m1, pdfminer |-> m2,
     pdfplumber |-> m3, ocr |-> m4]

NoMeta == Meta("unset", EmptyText, FALSE, 0, Absent, Absent, Absent, Absent)
NoRet == [text |-> EmptyText, meta |-> NoMeta]
NoFrame == [ocr_if_needed |-> FALSE, ocr_max_pages |-> 0, text |-> EmptyText,
            best |-> "unset", m1 |-> Absent, m2 |-> Absent, m3 |-> Absent]

\* the gate "len(text.strip()) >= 30"
Accepted_Strict(t) == StripLen(t) > ACCEPT_LEN
\* the gate using the retry floor of workers.py
Accepted_RetryFloor(t) == StripLen(t) >= MIN_OK_LEN
Accepted(t) == StripLen(t) >= ACCEPT_LEN

\* lines 162-166: keep pdfminer's text when longer, and name the best backend
AfterPdfminer(t, m1, text2) ==
    IF StripLen(text2) > StripLen(t) THEN [text |-> text2, best |-> "pdfminer"]
    ELSE [text |-> t, best |-> IF m1.ok THEN "pymupdf" ELSE "none"]

\* ">=" for ">": a tie goes to the later backend
AfterPdfplumber_OrEqual(t, best, text3) ==
    IF StripLen(text3) >= StripLen(t) THEN [text |-> text3, best |-> "pdfplumber"]
    ELSE [text |-> t, best |-> best]
\* lines 181-183
AfterPdfplumber(t, best, text3) ==
    IF StripLen(text3) > StripLen(t) THEN [text |-> text3, best |-> "pdfplumber"]
    ELSE [text |-> t, best |-> best]

\* lines 198-217: the result once OCR ran
\* ">=" for ">": OCR text taken when it is merely as long
AfterOcr_OrEqual(f, r4) ==
    IF StripLen(r4.text) >= StripLen(f.text)
    THEN [text |-> r4.text,
          meta |-> Meta("ocr", r4.text, TRUE, r4.meta.pages, f.m1, f.m2, f.m3, r4.meta)]
    ELSE [text |-> f.text,
          meta |-> Meta(f.best, f.text, r4.meta.ok, r4.meta.pages, f.m1, f.m2, f.m3, r4.meta)]
AfterOcr(f, r4) ==
    IF StripLen(r4.text) > StripLen(f.text)
    THEN [text |-> r4.text,
          meta |-> Meta("ocr", r4.text, TRUE, r4.meta.pages, f.m1, f.m2, f.m3, r4.meta)]
    ELSE [text |-> f.text,
          meta |-> Meta(f.best, f.text, r4.meta.ok, r4.meta.pages, f.m1, f.m2, f.m3, r4.meta)]


\* ======================================================= nlp/classifier.py
\* rules.py defines category_counts, extract_keywords and score, and no decide:
\* RULES.decide raises AttributeError whenever the module was imported.
RulesDecideRaises == TRUE
\* _decide (and _counts, _kws) are defined under "if RULES is None:" only
FallbackDefined(rules) == rules = "None"

\* classify(text): the dict it returns, or the exception that leaves it
classify(rules, c) ==
    LET viaFallback ==
            IF FallbackDefined(rules)
            THEN [raised |-> "", d |-> _decide(c)]
            ELSE [raised |-> "NameError", d |-> NoDecision]
        r == IF rules # "None"
             THEN (IF RulesDecideRaises THEN viaFallback
                   ELSE [raised |-> "", d |-> _decide(c)])
             ELSE viaFallback
    IN  IF r.raised # "" THEN [raised |-> r.raised, cls |-> <<>>]
        ELSE [raised |-> "",
              cls |-> [RequiresDrawingRevision |-> IF r.d.req THEN "Yes" ELSE "No",
                       DecisionBasis |-> r.d.basis,
                       StrongCount |-> r.d.c.strong, MediumCount |-> r.d.c.medium,
                       DisciplineCount |-> r.d.c.disc, WeakCount |-> r.d.c.weak,
                       NegatorCount |-> r.d.c.neg, SKRefs |-> r.d.c.sk]]

\* ================================================================ workers.py
\* process_pdf's stand-in dict when classify raised (lines 206-211)
DefaultCls ==
    [RequiresDrawingRevision |-> "No", DecisionBasis |-> InsufficientSignal,
     StrongCount |-> 0, MediumCount |-> 0, DisciplineCount |-> 0,
     WeakCount |-> 0, NegatorCount |-> 0, SKRefs |-> 0]

G_TO_K == {"G", "H", "I", "J", "K"}

\* _detect_area_phase_raw on what the four patterns find in the text:
\* range (RANGE_GK_RX matches), loc / any (letters LOCATION_AREA_RX and
\* AREA_LETTER_RX capture, upper-cased, in order), phase (PHASE2_RX matches)
RECURSIVE _first_gk(_)
_first_gk(letters) ==
    IF letters = <<>> THEN ""
    ELSE IF letters[1] \in G_TO_K THEN letters[1]
    ELSE _first_gk(Tail(letters))

_detect_area_phase_raw(a) ==
    LET letter_loc == _first_gk(a.loc)
        letter_any == _first_gk(a.any)
        gk_letter == IF letter_loc # "" THEN letter_loc ELSE letter_any
        all == a.loc \o a.any
        named_area_any == all # <<>>
        non_gk_present == \E i \in 1..Len(all) : all[i] \notin G_TO_K
    IN  IF a.range THEN [area_raw |-> "Areas G-K", out_of_scope |-> FALSE]
        ELSE IF gk_letter # "" /\ a.phase
             THEN [area_raw |-> "Area " \o gk_letter \o " + Phase 2", out_of_scope |-> FALSE]
        ELSE IF gk_letter # ""
             THEN [area_raw |-> "Area " \o gk_letter, out_of_scope |-> FALSE]
        ELSE IF a.phase THEN [area_raw |-> "Phase 2", out_of_scope |-> FALSE]
        ELSE IF named_area_any /\ non_gk_present /\ ~a.phase
             THEN [area_raw |-> "", out_of_scope |-> TRUE]
        ELSE [area_raw |-> "", out_of_scope |-> FALSE]

\* ---- what the matchers can find in a text (the environment)
Area(range, loc, any, phase) ==
    [range |-> range, loc |-> loc, any |-> any, phase |-> phase]
NoArea == Area(FALSE, <<>>, <<>>, FALSE)
AreaSamples == {NoArea,
                Area(FALSE, <<"C">>, <<"C">>, FALSE),
                Area(FALSE, <<>>, <<"C">>, TRUE),
                Area(FALSE, <<>>, <<"C", "G">>, FALSE),
                Area(TRUE, <<>>, <<"C">>, FALSE)}

Cnt(s, m, d, w, n, k, p) ==
    [strong |-> s, medium |-> m, disc |-> d, weak |-> w, neg |-> n, sk |-> k,
     posx |-> p]
CountSamples == {ZeroCounts,
                 Cnt(1, 0, 0, 0, 0, 0, 0), Cnt(1, 0, 0, 0, 1, 0, 0),
                 Cnt(0, 1, 1, 0, 1, 0, 0), Cnt(0, 0, 1, 1, 1, 0, 0),
                 Cnt(0, 0, 2, 0, 0, 1, 0), Cnt(0, 0, 0, 1, 0, 0, 0),
                 Cnt(0, 1, 0, 0, 0, 0, 0)}

\* every pattern needs a word character: a whitespace-only text matches nothing
FeatureSamples ==
    {[c |-> c, area |-> NoArea] : c \in CountSamples}
    \cup [c : {Cnt(1, 0, 0, 0, 0, 0, 0), Cnt(0, 0, 0, 1, 0, 0, 0)},
          area : AreaSamples \ {NoArea}]
FeaturesOf(t) ==
    IF StripLen(t) = 0 THEN {[c |-> ZeroCounts, area |-> NoArea]}
    ELSE FeatureSamples

NoResult == [ok |-> FALSE, row |-> <<>>, meta |-> <<>>]


\* ==================================================================== Init
OcrMaxPagesInputs == {0, 1, 25}

MatchIdle ==
    /\ mpc = "idle"
    /\ mtext = <<>>
    /\ mres = <<>>
    /\ mbase = <<>>
    /\ reps = 0
    /\ sks = 0

NormIdle ==
    /\ npc = "idle"
    /\ ns = <<>>
    /\ n1 = <<>>
    /\ n2 = <<>>

AtomicIdle ==
    /\ apc = "idle"
    /\ ai = 0
    /\ kind = "excel"
    /\ target = "absent"
    /\ target0 = "absent"
    /\ tmpfile = "none"
    /\ fb = "none"
    /\ aret = "none"
    /\ tries = 0
    /\ nperm = 0
    /\ left = 0

OthersIdle == MatchIdle /\ NormIdle /\ AtomicIdle

BatchIdle ==
    /\ bpc = "idle"
    /\ tasks = <<>>
    /\ limit = 0
    /\ workers = 1
    /\ all_tasks = <<>>
    /\ futures = <<>>
    /\ rows = <<>>
    /\ audit = <<>>

DecideIdle ==
    /\ dpc = "idle"
    /\ dc = ZeroCounts
    /\ dres = NoDecision
    /\ dres2 = NoDecision

PipelineIdle ==
    /\ RULES = "None"
    /\ doc = UnreadDoc
    /\ ocr_if_needed = FALSE
    /\ ocr_max_pages = 0
    /\ frame = NoFrame
    /\ calls = <<>>
    /\ ret = NoRet
    /\ pc = "idle"
    /\ call = 0
    /\ limits = <<>>
    /\ text = EmptyText
    /\ meta = NoMeta
    /\ attempts = 0
    /\ forced = FALSE
    /\ warnings = <<>>
    /\ textFeat = [c |-> ZeroCounts, area |-> NoArea]
    /\ cls = DefaultCls
    /\ out_of_scope = FALSE
    /\ result = NoResult

\* process_pdf is entered for one PDF with the batch's OCR settings
Init ==
    /\ RULES \in {"module", "None"}
    /\ doc = UnreadDoc
    /\ ocr_if_needed \in BOOLEAN
    /\ ocr_max_pages \in OcrMaxPagesInputs
    /\ frame = NoFrame
    /\ calls = <<>>
    /\ ret = NoRet
    /\ pc = "start"
    /\ call = 0
    /\ limits = <<>>
    /\ text = EmptyText
    /\ meta = NoMeta
    /\ attempts = 0
    /\ forced = FALSE
    /\ warnings = <<>>
    /\ textFeat = [c |-> ZeroCounts, area |-> NoArea]
    /\ cls = DefaultCls
    /\ out_of_scope = FALSE
    /\ result = NoResult
    /\ DecideIdle
    /\ BatchIdle
    /\ OthersIdle

\* ================================== extract_text_with_meta, one step per engine
\* the call: fresh locals
Enter(ocr, max_pages) ==
    /\ frame' = [NoFrame EXCEPT !.ocr_if_needed = ocr, !.ocr_max_pages = max_pages]
    /\ calls' = <<>>
    /\ call' = call + 1
    /\ limits' = Append(limits, max_pages)
    /\ pc' = "pymupdf"

Return(t, m) ==
    /\ ret' = [text |-> t, meta |-> m]
    /\ frame' = NoFrame
    /\ pc' = "returned"

\* lines 148-158
ExtractPymupdf ==
    /\ pc = "pymupdf"
    /\ \E o \in NativeReads("pymupdf") :
         LET r == _read_with_pymupdf(o) IN
         /\ doc' = [doc EXCEPT !.pymupdf = o]
         /\ calls' = Append(calls, "pymupdf")
         /\ IF Accepted(r.text)
            THEN Return(r.text, Meta("pymupdf", r.text, FALSE, 0, r.meta, Absent, Absent, Absent))
            ELSE /\ frame' = [frame EXCEPT !.text = r.text, !.m1 = r.meta]
                 /\ pc' = "pdfminer"
                 /\ UNCHANGED ret
    /\ UNCHANGED <<RULES, ocr_if_needed, ocr_max_pages, call, limits, text, meta,
                   attempts, forced, warnings, textFeat, cls, out_of_scope, result>>
    /\ UNCHANGED dvars
    /\ UNCHANGED bvars
    /\ UNCHANGED <<mvars, nvars, avars>>

\* lines 160-177
ExtractPdfminer ==
    /\ pc = "pdfminer"
    /\ \E o \in NativeReads("pdfminer") :
         LET r == _read_with_pdfminer(o)
             b == AfterPdfminer(frame.text, frame.m1, r.text)
         IN
         /\ doc' = [doc EXCEPT !.pdfminer = o]
         /\ calls' = Append(calls, "pdfminer")
         /\ IF Accepted(b.text)
            THEN Return(b.text, Meta(b.best, b.text, FALSE, 0, frame.m1, r.meta, Absent, Absent))
            ELSE /\ frame' = [frame EXCEPT !.text = b.text, !.best = b.best, !.m2 = r.meta]
                 /\ pc' = "pdfplumber"
                 /\ UNCHANGED ret
    /\ UNCHANGED <<RULES, ocr_if_needed, ocr_max_pages, call, limits, text, meta,
                   attempts, forced, warnings, textFeat, cls, out_of_scope, result>>
    /\ UNCHANGED dvars
    /\ UNCHANGED bvars
    /\ UNCHANGED <<mvars, nvars, avars>>

\* lines 179-193
ExtractPdfplumber ==
    /\ pc = "pdfplumber"
    /\ \E o \in NativeReads("pdfplumber") :
         LET r == _read_with_pdfplumber(o)
             b == AfterPdfplumber(frame.text, frame.best, r.text)
         IN
         /\ doc' = [doc EXCEPT !.pdfplumber = o]
         /\ calls' = Append(calls, "pdfplumber")
         /\ IF Accepted(b.text)
            THEN Return(b.text, Meta(b.best, b.text, FALSE, 0, frame.m1, frame.m2, r.meta, Absent))
            ELSE /\ frame' = [frame EXCEPT !.text = b.text, !.best = b.best, !.m3 = r.meta]
                 /\ pc' = "ocr_gate"
                 /\ UNCHANGED ret
    /\ UNCHANGED <<RULES, ocr_if_needed, ocr_max_pages, call, limits, text, meta,
                   attempts, forced, warnings, textFeat, cls, out_of_scope, result>>
    /\ UNCHANGED dvars
    /\ UNCHANGED bvars
    /\ UNCHANGED <<mvars, nvars, avars>>

\* lines 195-217
ExtractOcr ==
    /\ pc = "ocr_gate"
    /\ frame.ocr_if_needed
    /\ \E o \in OcrReads :
         LET max_pages == IF frame.ocr_max_pages # 0 THEN frame.ocr_max_pages
                          ELSE OCR_DEFAULT_PAGES
             r4 == _ocr_with_pdf2image(o, max_pages)
             out == AfterOcr(frame, r4)
         IN
         /\ doc' = [doc EXCEPT !.ocr = o]
         /\ calls' = Append(calls, "ocr")
         /\ Return(out.text, out.meta)
    /\ UNCHANGED <<RULES, ocr_if_needed, ocr_max_pages, call, limits, text, meta,
                   attempts, forced, warnings, textFeat, cls, out_of_scope, result>>
    /\ UNCHANGED dvars
    /\ UNCHANGED bvars
    /\ UNCHANGED <<mvars, nvars, avars>>

\* lines 219-227
ExtractNoOcr ==
    /\ pc = "ocr_gate"
    /\ ~frame.ocr_if_needed
    /\ Return(frame.text,
              Meta(frame.best, frame.text, FALSE, 0, frame.m1, frame.m2, frame.m3, Absent))
    /\ UNCHANGED <<RULES, doc, ocr_if_needed, ocr_max_pages, calls, call, limits, text,
                   meta, attempts, forced, warnings, textFeat, cls, out_of_scope, result>>
    /\ UNCHANGED dvars
    /\ UNCHANGED bvars
    /\ UNCHANGED <<mvars, nvars, avars>>


\* ============================================================== process_pdf
\* line 179: the first invocation, with the caller's settings
Start ==
    /\ pc = "start"
    /\ Enter(ocr_if_needed, ocr_max_pages)
    /\ UNCHANGED <<RULES, doc, ocr_if_needed, ocr_max_pages, ret, text, meta, attempts,
                   forced, warnings, textFeat, cls, out_of_scope, result>>
    /\ UNCHANGED dvars
    /\ UNCHANGED bvars
    /\ UNCHANGED <<mvars, nvars, avars>>

\* the retry floor confused with the cascade's acceptance threshold
NeedsRetry_AcceptLen(t, ocr) == StripLen(t) < ACCEPT_LEN /\ ocr
\* the escalation not looking at the caller's OCR flag
NeedsRetry_IgnoreFlag(t, ocr) == StripLen(t) < MIN_OK_LEN
\* line 182
NeedsRetry(t, ocr) == StripLen(t) < MIN_OK_LEN /\ ocr

\* lines 179-186: take the first result; escalate once when it is short
RetryCheck ==
    /\ pc = "returned"
    /\ call = 1
    /\ text' = ret.text
    /\ meta' = ret.meta
    /\ ret' = NoRet
    /\ IF NeedsRetry(ret.text, ocr_if_needed)
       THEN /\ forced' = TRUE
            /\ attempts' = 2
            /\ Enter(TRUE, Max(ocr_max_pages, RETRY_PAGES))
       ELSE /\ forced' = FALSE
            /\ attempts' = 1
            /\ pc' = "classify"
            /\ UNCHANGED <<frame, calls, call, limits>>
    /\ UNCHANGED <<RULES, doc, ocr_if_needed, ocr_max_pages, warnings, textFeat, cls,
                   out_of_scope, result>>
    /\ UNCHANGED dvars
    /\ UNCHANGED bvars
    /\ UNCHANGED <<mvars, nvars, avars>>

\* ">=" for ">": the second result taken when it is merely as long
KeepSecond_OrEqual(t1, t2) == StripLen(t2) >= StripLen(t1)
\* line 187
KeepSecond(t1, t2) == StripLen(t2) > StripLen(t1)

\* lines 187-188: the second result replaces the first only when strictly longer
KeepLonger ==
    /\ pc = "returned"
    /\ call = 2
    /\ IF KeepSecond(text, ret.text)
       THEN text' = ret.text /\ meta' = ret.meta
       ELSE UNCHANGED <<text, meta>>
    /\ ret' = NoRet
    /\ pc' = "classify"
    /\ UNCHANGED <<RULES, doc, ocr_if_needed, ocr_max_pages, frame, calls, call, limits,
                   attempts, forced, warnings, textFeat, cls, out_of_scope, result>>
    /\ UNCHANGED dvars
    /\ UNCHANGED bvars
    /\ UNCHANGED <<mvars, nvars, avars>>

\* lines 201-211: classify, or the stand-in dict and a warning when it raises
Classify ==
    /\ pc = "classify"
    /\ \E f \in FeaturesOf(text) :
         LET r == classify(RULES, f.c) IN
         /\ textFeat' = f
         /\ IF r.raised = ""
            THEN cls' = r.cls /\ UNCHANGED warnings
            ELSE /\ cls' = DefaultCls
                 /\ warnings' = Append(warnings, "classify:" \o r.raised)
    /\ pc' = "finish"
    /\ UNCHANGED <<RULES, doc, ocr_if_needed, ocr_max_pages, frame, calls, ret, call,
                   limits, text, meta, attempts, forced, out_of_scope, result>>
    /\ UNCHANGED dvars
    /\ UNCHANGED bvars
    /\ UNCHANGED <<mvars, nvars, avars>>

\* the override also resetting the basis
Override_AlsoBasis(c, oos) ==
    IF oos THEN [c EXCEPT !.RequiresDrawingRevision = "No",
                          !.DecisionBasis = InsufficientSignal]
    ELSE c
\* lines 226-228
Override(c, oos) ==
    IF oos THEN [c EXCEPT !.RequiresDrawingRevision = "No"] ELSE c

\* the row's Status not reflecting the warnings
Row_NeverWarn(c, area_raw, w) ==
    [RequiresDrawingRevision |-> c.RequiresDrawingRevision,
     DecisionBasis |-> c.DecisionBasis,
     AreaCategory |-> IF area_raw # "" THEN c.DecisionBasis \o " + " \o area_raw
                      ELSE "General",
     Status |-> "ok",
     Error |-> w]
\* lines 249-268
Row(c, area_raw, w) ==
    [RequiresDrawingRevision |-> c.RequiresDrawingRevision,
     DecisionBasis |-> c.DecisionBasis,
     AreaCategory |-> IF area_raw # "" THEN c.DecisionBasis \o " + " \o area_raw
                      ELSE "General",
     Status |-> IF w = <<>> THEN "ok" ELSE "ok_warn",
     Error |-> w]

\* lines 270-281
MetaOut(m, a, f, w) ==
    [method |-> m.method, text_len |-> m.text_len, ocr_used |-> m.ocr_used,
     ocr_pages |-> m.ocr_pages, attempts |-> a, forced_second_attempt |-> f,
     status |-> IF w = <<>> THEN "ok" ELSE "ok_warn", error |-> w]

\* lines 219-282: area detection, the out-of-scope override, the row and the audit
Finish ==
    /\ pc = "finish"
    /\ LET a == _detect_area_phase_raw(textFeat.area)
           c == Override(cls, a.out_of_scope)
       IN  /\ out_of_scope' = a.out_of_scope
           /\ cls' = c
           /\ result' = [ok |-> TRUE, row |-> Row(c, a.area_raw, warnings),
                         meta |-> MetaOut(meta, attempts, forced, warnings)]
    /\ pc' = "done"
    /\ UNCHANGED <<RULES, doc, ocr_if_needed, ocr_max_pages, frame, calls, ret, call,
                   limits, text, meta, attempts, forced, warnings, textFeat>>
    /\ UNCHANGED dvars
    /\ UNCHANGED bvars
    /\ UNCHANGED <<mvars, nvars, avars>>

\* f"{type(e).__name__}: {e}"
ExcStr(e) == e.type \o ": " \o e.msg

\* what can escape the statements of the try body that no inner handler wraps
\* (lines 199, 227-228, 256-282 build strings and dicts): a resource error
Escaping == {[type |-> "MemoryError", msg |-> ""]}

\* lines 284-303: the row and the audit of a failed task
ErrorResult(e) ==
    [ok |-> FALSE,
     row |-> [RequiresDrawingRevision |-> "No",
              DecisionBasis |-> InsufficientSignal,
              AreaCategory |-> "General",
              Status |-> "error",
              Error |-> <<ExcStr(e)>>],
     meta |-> [method |-> "error", text_len |-> 0, ocr_used |-> FALSE,
               ocr_pages |-> 0, attempts |-> 1, forced_second_attempt |-> FALSE,
               status |-> "error", error |-> <<ExcStr(e)>>]]

\* an exception leaves the try body after extraction; the handler of line 284
\* uses none of the locals
Unexpected ==
    /\ pc \in {"classify", "finish"}
    /\ \E e \in Escaping : result' = ErrorResult(e)
    /\ pc' = "done"
    /\ text' = EmptyText
    /\ meta' = NoMeta
    /\ warnings' = <<>>
    /\ textFeat' = [c |-> ZeroCounts, area |-> NoArea]
    /\ cls' = DefaultCls
    /\ UNCHANGED <<RULES, doc, ocr_if_needed, ocr_max_pages, frame, calls, ret, call,
                   limits, attempts, forced, out_of_scope>>
    /\ UNCHANGED dvars
    /\ UNCHANGED bvars
    /\ UNCHANGED <<mvars, nvars, avars>>

Next ==
    \/ Start
    \/ ExtractPymupdf
    \/ ExtractPdfminer
    \/ ExtractPdfplumber
    \/ ExtractOcr
    \/ ExtractNoOcr
    \/ RetryCheck
    \/ KeepLonger
    \/ Classify
    \/ Finish
    \/ Unexpected

Spec == Init /\ [][Next]_vars

\* ================================================= _decide on drawn counts
InitDecide ==
    /\ PipelineIdle
    /\ BatchIdle
    /\ OthersIdle
    /\ dpc = "call"
    /\ dc \in Counts
    /\ dres = NoDecision
    /\ dres2 = NoDecision

DecideCall ==
    /\ dpc = "call"
    /\ dres' = _decide(dc)
    /\ dpc' = "again"
    /\ UNCHANGED <<dc, dres2>>
    /\ UNCHANGED pvars
    /\ UNCHANGED bvars
    /\ UNCHANGED <<mvars, nvars, avars>>

DecideAgain ==
    /\ dpc = "again"
    /\ dres2' = _decide(dc)
    /\ dpc' = "done"
    /\ UNCHANGED <<dc, dres>>
    /\ UNCHANGED pvars
    /\ UNCHANGED bvars
    /\ UNCHANGED <<mvars, nvars, avars>>

NextDecide == DecideCall \/ DecideAgain

SpecDecide == InitDecide /\ [][NextDecide]_vars


\* ================================================================ run_local
\* what process_pdf returns for a document, as far as the batch can tell them
\* apart: a normal row, a row with warnings, or the row of a failed task
Outcomes == {"ok", "ok_warn", "error"}

\* a task (pdf_path, rfi_no); paths are distinct and sorted (lines 27-45), so
\* the path is the task's rank; the outcome is what the file makes process_pdf do
Task(i, o) == [pdf_path |-> i, outcome |-> o]
TaskLists ==
    UNION {{[i \in 1..n |-> Task(i, f[i])] : f \in [1..n -> Outcomes]} : n \in 0..MaxTasks}

\* workers.py lines 256-303: the row's LocalPath and Status, the audit's pdf
\* and status, and the ok flag
ProcessPdf(t) ==
    [ok |-> t.outcome # "error",
     row |-> [LocalPath |-> t.pdf_path, Status |-> t.outcome],
     meta |-> [pdf |-> t.pdf_path, status |-> t.outcome]]

\* the slice keeping one task less than asked for
Slice_OffByOne(ts, lim) ==
    IF lim # 0 THEN SubSeq(ts, 1, IF Len(ts) < lim - 1 THEN Len(ts) ELSE lim - 1) ELSE ts
\* lines 64-65: all_tasks[:limit] when limit is given and not 0
Slice(ts, lim) ==
    IF lim # 0 THEN SubSeq(ts, 1, IF Len(ts) < lim THEN Len(ts) ELSE lim) ELSE ts

\* lines 67-69; cpu = 0 stands for os.cpu_count() returning None
AutoWorkers(w, cpu) ==
    IF w = 0 THEN Max(1, (IF cpu = 0 THEN 2 ELSE cpu) - 1) ELSE w
CpuCounts == {0, 1, 3}
LimitInputs == {0, 2, MaxTasks + 1}
WorkerInputs == {0, 1, 2, 3}

\* the audit record put in front instead of at the end
AppendAudit_Front(a, r) == <<r.meta>> \o a
\* lines 77, 88
AppendRow(rs, r) == Append(rs, r.row)
\* lines 78, 89
AppendAudit(a, r) == Append(a, r.meta)

Pending == [state |-> "pending", result |-> NoResult]

InitBatch ==
    /\ PipelineIdle
    /\ DecideIdle
    /\ OthersIdle
    /\ bpc = "start"
    /\ tasks \in TaskLists
    /\ limit \in LimitInputs
    /\ workers \in WorkerInputs
    /\ all_tasks = <<>>
    /\ futures = <<>>
    /\ rows = <<>>
    /\ audit = <<>>

\* lines 59-74: nothing found, or the limit, the worker count and the branch
BatchStart ==
    /\ bpc = "start"
    /\ IF tasks = <<>>
       THEN /\ bpc' = "returned"
            /\ UNCHANGED <<all_tasks, workers>>
       ELSE /\ all_tasks' = Slice(tasks, limit)
            /\ \E cpu \in CpuCounts : workers' = AutoWorkers(workers, cpu)
            /\ bpc' = IF workers' = 1 THEN "sequential" ELSE "submit"
    /\ UNCHANGED <<tasks, limit, futures, rows, audit>>
    /\ UNCHANGED <<pvars, dvars>>
    /\ UNCHANGED <<mvars, nvars, avars>>

\* lines 75-78: one turn of the sequential loop
SeqStep ==
    /\ bpc = "sequential"
    /\ Len(rows) < Len(all_tasks)
    /\ LET r == ProcessPdf(all_tasks[Len(rows) + 1]) IN
         /\ rows' = AppendRow(rows, r)
         /\ audit' = AppendAudit(audit, r)
    /\ UNCHANGED <<bpc, tasks, limit, workers, all_tasks, futures>>
    /\ UNCHANGED <<pvars, dvars>>
    /\ UNCHANGED <<mvars, nvars, avars>>

\* line 79
SeqReturn ==
    /\ bpc = "sequential"
    /\ Len(rows) = Len(all_tasks)
    /\ bpc' = "returned"
    /\ UNCHANGED <<tasks, limit, workers, all_tasks, futures, rows, audit>>
    /\ UNCHANGED <<pvars, dvars>>
    /\ UNCHANGED <<mvars, nvars, avars>>

\* lines 81-85: one future per task, all queued
Submit ==
    /\ bpc = "submit"
    /\ futures' = [i \in 1..Len(all_tasks) |-> Pending]
    /\ bpc' = "collect"
    /\ UNCHANGED <<tasks, limit, workers, all_tasks, rows, audit>>
    /\ UNCHANGED <<pvars, dvars>>
    /\ UNCHANGED <<mvars, nvars, avars>>

Running == {i \in 1..Len(futures) : futures[i].state = "running"}

\* a free worker process takes the oldest queued task
WorkerTake(i) ==
    /\ bpc = "collect"
    /\ futures[i].state = "pending"
    /\ \A j \in 1..(i - 1) : futures[j].state # "pending"
    /\ Cardinality(Running) < workers
    /\ futures' = [futures EXCEPT ![i].state = "running"]
    /\ UNCHANGED <<bpc, tasks, limit, workers, all_tasks, rows, audit>>
    /\ UNCHANGED <<pvars, dvars>>
    /\ UNCHANGED <<mvars, nvars, avars>>

\* a worker process returns from process_pdf; the running tasks end in any order
WorkerFinish(i) ==
    /\ bpc = "collect"
    /\ futures[i].state = "running"
    /\ futures' = [futures EXCEPT ![i] = [state |-> "finished",
                                          result |-> ProcessPdf(all_tasks[i])]]
    /\ UNCHANGED <<bpc, tasks, limit, workers, all_tasks, rows, audit>>
    /\ UNCHANGED <<pvars, dvars>>
    /\ UNCHANGED <<mvars, nvars, avars>>

\* lines 86-89: as_completed hands over a finished future not yet handed over
Collect(i) ==
    /\ bpc = "collect"
    /\ futures[i].state = "finished"
    /\ LET r == futures[i].result IN
         /\ rows' = AppendRow(rows, r)
         /\ audit' = AppendAudit(audit, r)
    /\ futures' = [futures EXCEPT ![i].state = "yielded"]
    /\ UNCHANGED <<bpc, tasks, limit, workers, all_tasks>>
    /\ UNCHANGED <<pvars, dvars>>
    /\ UNCHANGED <<mvars, nvars, avars>>

\* line 91: as_completed is exhausted
PoolReturn ==
    /\ bpc = "collect"
    /\ \A i \in 1..Len(futures) : futures[i].state = "yielded"
    /\ bpc' = "returned"
    /\ UNCHANGED <<tasks, limit, workers, all_tasks, futures, rows, audit>>
    /\ UNCHANGED <<pvars, dvars>>
    /\ UNCHANGED <<mvars, nvars, avars>>

NextBatch ==
    \/ BatchStart
    \/ SeqStep
    \/ SeqReturn
    \/ Submit
    \/ \E i \in 1..Len(futures) : WorkerTake(i)
    \/ \E i \in 1..Len(futures) : WorkerFinish(i)
    \/ \E i \in 1..Len(futures) : Collect(i)
    \/ PoolReturn

SpecBatch == InitBatch /\ [][NextBatch]_vars

\* the main process and the pool's worker processes keep running
SpecBatchFair == InitBatch /\ [][NextBatch]_vars /\ WF_vars(NextBatch)


\* ================================== nlp/rules.py, nlp/classifier.py: matchers
\* A text is a sequence of tokens.  A token is a maximal run of characters
\* that are neither whitespace nor punctuation (a word, "hold-down", "sk-1"),
\* or one punctuation mark; w is the token in lower case, up tells that the
\* text has it in upper case, gap is the number of whitespace characters that
\* follow it.  A phrase of a vocabulary is its sequence of words: the regex
\* built for it joins them with \s+ and puts \b at both ends, so it matches
\* whole tokens separated by whitespace only, whatever their case.
Tok(w, up, gap) == [w |-> w, up |-> up, gap |-> gap]
Word(w) == Tok(w, FALSE, 1)
Dot == Tok(".", FALSE, 1)

\* rules.py lines 34-46
_STRONG_PHRASES ==
    <<<<"conflict">>, <<"conflicting">>, <<"discrepancy">>, <<"inconsistent">>,
      <<"mismatch">>, <<"deviation">>, <<"missing">>, <<"missed">>,
      <<"omission">>, <<"omitted">>, <<"not", "shown">>, <<"not", "indicated">>,
      <<"not", "detailed">>, <<"absent">>, <<"no", "detail">>, <<"no",
      "information">>, <<"error">>, <<"incorrect">>, <<"wrong">>,
      <<"mislabel">>, <<"mislabeled">>, <<"miscallout">>, <<"needs",
      "correction">>, <<"dimension", "conflict">>, <<"dimension", "incorrect">>,
      <<"dimension", "missing">>, <<"elevation", "conflict">>, <<"elevation",
      "incorrect">>, <<"elevation", "missing">>, <<"does", "not", "add", "up">>,
      <<"out", "of", "tolerance">>, <<"revise", "drawing">>, <<"issue",
      "revised", "drawing">>, <<"update", "drawing">>, <<"revise", "detail">>,
      <<"reissue", "sheet">>, <<"revise", "note">>, <<"cloud", "change">>,
      <<"clouded">>, <<"change", "required">>, <<"does", "not", "meet",
      "code">>, <<"not", "per", "code">>, <<"not", "per", "spec">>,
      <<"conflicts", "with", "spec">>, <<"violates", "spec">>>>

\* rules.py lines 49-54
_MEDIUM_PHRASES ==
    <<<<"clarification">>, <<"unclear">>, <<"ambiguous">>, <<"please",
      "clarify">>, <<"need", "clarity">>, <<"cannot", "determine">>,
      <<"coordination", "issue">>, <<"interference">>, <<"clash">>,
      <<"collision">>, <<"obstruction">>, <<"fit", "issue">>, <<"load", "path",
      "unclear">>, <<"support", "not", "shown">>, <<"connection", "not",
      "shown">>, <<"not", "specified">>, <<"design", "not", "provided">>,
      <<"confirm", "revision">>, <<"advise", "if", "revision">>, <<"verify",
      "dimension">>>>

\* rules.py lines 57-75 (the entry spelt with a cedilla is left out)
_DISC_PHRASES ==
    <<<<"connection", "detail">>, <<"bolt", "pattern">>, <<"weld", "size">>,
      <<"shear", "tab">>, <<"clip", "angle">>, <<"base", "plate">>,
      <<"stiffener">>, <<"camber">>, <<"moment", "connection">>, <<"hss",
      "cap">>, <<"hss", "closure">>, <<"lap", "splice">>, <<"development",
      "length">>, <<"bar", "spacing">>, <<"hook">>, <<"dowel">>, <<"embed">>,
      <<"embed", "plate">>, <<"headed", "stud">>, <<"shear", "stud">>,
      <<"shear", "key">>, <<"slab", "thickening">>, <<"cover">>, <<"rebar",
      "congestion">>, <<"anchor", "size">>, <<"anchor", "layout">>, <<"edge",
      "distance">>, <<"embed", "depth">>, <<"adhesive", "anchor">>,
      <<"post-installed", "anchor">>, <<"elevation", "mismatch">>, <<"slope",
      "conflict">>, <<"deflection", "exceed">>, <<"drift", "exceed">>,
      <<"camber", "not", "accounted">>, <<"bearing", "not", "provided">>,
      <<"footing", "size">>, <<"pier", "size">>, <<"grade", "beam">>,
      <<"pedestal">>, <<"pile", "cap">>, <<"uplift">>, <<"overturning">>,
      <<"shear", "wall", "boundary">>, <<"holdown">>, <<"hold-down">>,
      <<"sleeve", "through", "beam">>, <<"sleeve", "through", "slab">>,
      <<"opening", "in", "slab">>, <<"opening", "in", "wall">>,
      <<"penetration">>, <<"embed", "conflict">>, <<"stair", "support">>,
      <<"facade", "support">>>>

\* rules.py lines 78-82
_WEAK_PHRASES ==
    <<<<"please", "confirm">>, <<"please", "advise">>, <<"verify">>,
      <<"clarify">>, <<"request", "information">>, <<"question", "about">>,
      <<"detail", "reference">>, <<"sheet", "reference">>, <<"key", "note",
      "reference">>, <<"callout">>, <<"calling", "out">>>>

\* rules.py lines 85-91
_NEGATOR_PHRASES ==
    <<<<"no", "change", "required">>, <<"for", "clarification", "only">>,
      <<"record", "only">>, <<"field", "condition", "only">>, <<"means", "and",
      "methods">>, <<"no", "impact", "to", "drawings">>, <<"does", "not",
      "affect", "drawings">>, <<"informational", "only">>>>

\* classifier.py lines 15-22
_S ==
    <<<<"conflict">>, <<"conflicting">>, <<"discrepancy">>, <<"inconsistent">>,
      <<"mismatch">>, <<"deviation">>, <<"missing">>, <<"missed">>,
      <<"omission">>, <<"omitted">>, <<"not", "shown">>, <<"not", "indicated">>,
      <<"not", "detailed">>, <<"absent">>, <<"no", "detail">>, <<"no",
      "information">>, <<"error">>, <<"incorrect">>, <<"wrong">>, <<"needs",
      "correction">>, <<"dimension", "conflict">>, <<"dimension", "incorrect">>,
      <<"dimension", "missing">>, <<"elevation", "conflict">>, <<"elevation",
      "incorrect">>, <<"elevation", "missing">>, <<"does", "not", "add", "up">>,
      <<"out", "of", "tolerance">>, <<"revise", "drawing">>, <<"update",
      "drawing">>, <<"reissue", "sheet">>, <<"revise", "detail">>, <<"revise",
      "note">>, <<"clouded">>, <<"cloud", "change">>, <<"change", "required">>,
      <<"not", "per", "code">>, <<"not", "per", "spec">>, <<"conflicts", "with",
      "spec">>, <<"violates", "spec">>>>

\* classifier.py lines 23-26
_M ==
    <<<<"clarification">>, <<"unclear">>, <<"ambiguous">>, <<"please",
      "clarify">>, <<"need", "clarity">>, <<"cannot", "determine">>,
      <<"coordination", "issue">>, <<"interference">>, <<"clash">>,
      <<"collision">>, <<"obstruction">>, <<"fit", "issue">>, <<"load", "path",
      "unclear">>, <<"support", "not", "shown">>, <<"connection", "not",
      "shown">>, <<"not", "specified">>, <<"design", "not", "provided">>,
      <<"confirm", "revision">>, <<"advise", "if", "revision">>, <<"verify",
      "dimension">>>>

\* classifier.py lines 27-37 (the entry spelt with a cedilla is left out)
_D ==
    <<<<"connection", "detail">>, <<"bolt", "pattern">>, <<"weld", "size">>,
      <<"shear", "tab">>, <<"clip", "angle">>, <<"base", "plate">>,
      <<"stiffener">>, <<"camber">>, <<"moment", "connection">>, <<"hss",
      "cap">>, <<"hss", "closure">>, <<"lap", "splice">>, <<"development",
      "length">>, <<"bar", "spacing">>, <<"hook">>, <<"dowel">>, <<"embed">>,
      <<"embed", "plate">>, <<"headed", "stud">>, <<"shear", "stud">>,
      <<"shear", "key">>, <<"slab", "thickening">>, <<"cover">>, <<"rebar",
      "congestion">>, <<"anchor", "size">>, <<"anchor", "layout">>, <<"edge",
      "distance">>, <<"embed", "depth">>, <<"adhesive", "anchor">>,
      <<"post-installed", "anchor">>, <<"elevation", "mismatch">>, <<"slope",
      "conflict">>, <<"deflection", "exceed">>, <<"drift", "exceed">>,
      <<"camber", "not", "accounted">>, <<"bearing", "not", "provided">>,
      <<"footing", "size">>, <<"pier", "size">>, <<"grade", "beam">>,
      <<"pedestal">>, <<"pile", "cap">>, <<"uplift">>, <<"overturning">>,
      <<"shear", "wall", "boundary">>, <<"holdown">>, <<"hold-down">>,
      <<"sleeve", "through", "beam">>, <<"sleeve", "through", "slab">>,
      <<"opening", "in", "slab">>, <<"opening", "in", "wall">>,
      <<"penetration">>, <<"embed", "conflict">>, <<"stair", "support">>,
      <<"facade", "support">>>>

\* classifier.py lines 38-39
_W ==
    <<<<"please", "confirm">>, <<"please", "advise">>, <<"verify">>,
      <<"clarify">>, <<"request", "information">>, <<"question", "about">>,
      <<"detail", "reference">>, <<"sheet", "reference">>, <<"key", "note",
      "reference">>, <<"callout">>, <<"calling", "out">>>>

\* classifier.py lines 40-41
_N ==
    <<<<"no", "change", "required">>, <<"for", "clarification", "only">>,
      <<"record", "only">>, <<"field", "condition", "only">>, <<"means", "and",
      "methods">>, <<"no", "impact", "to", "drawings">>, <<"does", "not",
      "affect", "drawings">>, <<"informational", "only">>>>

Buckets == {"strong", "medium", "disc", "weak", "neg"}
\* rules.py: STRONG_RX, MEDIUM_RX, DISC_RX, WEAK_RX, NEG_RX
RulesVocab ==
    [strong |-> _STRONG_PHRASES, medium |-> _MEDIUM_PHRASES, disc |-> _DISC_PHRASES,
     weak |-> _WEAK_PHRASES, neg |-> _NEGATOR_PHRASES]
\* classifier.py: RX_S, RX_M, RX_D, RX_W, RX_N
FallbackVocab ==
    [strong |-> _S, medium |-> _M, disc |-> _D, weak |-> _W, neg |-> _N]

\* the alternative \b w1 \s+ w2 ... \b matches at token i
PhraseAt(t, i, p) ==
    /\ i + Len(p) - 1 <= Len(t)
    /\ \A j \in 1..Len(p) : t[i + j - 1].w = p[j]

\* a regex alternation is ordered: at a position the engine takes the first
\* listed alternative that matches there (0: none does)
_phrases_to_regex(V, t, i) ==
    LET ks == {k \in 1..Len(V) : PhraseAt(t, i, V[k])}
    IN  IF ks = {} THEN 0 ELSE CHOOSE k \in ks : \A h \in ks : k <= h

\* m.group(0).lower(), whitespace runs collapsed to one space, stripped
NormPhrase(m) == [j \in 1..Len(m) |-> m[j].w]

\* rx.finditer: leftmost, non-overlapping matches, normalised
RECURSIVE finditer(_, _, _)
finditer(V, t, i) ==
    IF i > Len(t) THEN <<>>
    ELSE LET k == _phrases_to_regex(V, t, i) IN
         IF k = 0 THEN finditer(V, t, i + 1)
         ELSE <<NormPhrase(SubSeq(t, i, i + Len(V[k]) - 1))>>
              \o finditer(V, t, i + Len(V[k]))

\* every occurrence kept
Dedup_KeepAll(hits) == hits
\* "de-dup, preserve order" (rules.py lines 27-31; the set of classifier.py line 52)
RECURSIVE Dedup(_)
Dedup(hits) ==
    IF hits = <<>> THEN <<>>
    ELSE LET n == Len(hits)
             seen == Dedup(SubSeq(hits, 1, n - 1))
         IN  IF \E j \in 1..Len(seen) : seen[j] = hits[n] THEN seen
             ELSE Append(seen, hits[n])

\* rules.py _find_terms / classifier.py _find
_find_terms(V, t) == Dedup(finditer(V, t, 1))

\* SK_RE / RX_SK on one token
SkRefs == {"sk-1", "sk-2", "sk-3a"}
\* findall: every occurrence counts
SkCount(t) == Cardinality({i \in 1..Len(t) : t[i].w \in SkRefs})

\* the positive patterns, each a set of slot sequences (a slot: the words it admits)
Slots(t, i, sl) ==
    /\ i + Len(sl) - 1 <= Len(t)
    /\ \A j \in 1..Len(sl) : t[i + j - 1].w \in sl[j]
Search(rx, t) == \E sl \in rx : \E i \in 1..Len(t) : Slots(t, i, sl)
PosCloud == {<<{"cloud", "clouded", "clouding"}, {"on", "in"}, {"sheet", "set"}>>}
PosRevise ==
    {<<{"revise", "revised", "revision"},
       {"drawing", "drawings", "sheet", "sheets", "plan", "plans", "detail", "details"}>>}
PosSeeAttached == {<<{"see"}, {"attached"}, {"sk-1", "sk-2", "sketch-1"}>>}
PosIssue == {<<{"issue"}, {"sk-1", "sk-2"}>>, <<{"issue"}, {"a", "an"}, {"sk-1", "sk-2"}>>}
\* rules.py lines 106-112
POS_RE == <<PosCloud, PosRevise, PosSeeAttached, PosIssue>>
\* classifier.py lines 47-49
RX_POS == <<PosCloud, PosRevise, PosIssue>>
PosCount(rxs, t) == Cardinality({k \in 1..Len(rxs) : Search(rxs[k], t)})

\* the counts dict built from the five lists of found phrases
CountsOf(f, t, rxs) ==
    [strong |-> Len(f.strong), medium |-> Len(f.medium), disc |-> Len(f.disc),
     weak |-> Len(f.weak), neg |-> Len(f.neg),
     sk |-> SkCount(t), posx |-> PosCount(rxs, t)]

\* rules.py lines 115-134 (docref, which no decision uses, left out)
_analyze(t) ==
    CountsOf([b \in Buckets |-> _find_terms(RulesVocab[b], t)], t, POS_RE)

\* classifier.py lines 54-57
_counts(t) ==
    CountsOf([b \in Buckets |-> _find_terms(FallbackVocab[b], t)], t, RX_POS)

\* all that the two sets of matchers report on a text
Found(t) ==
    LET f == [b \in Buckets |-> _find_terms(RulesVocab[b], t)]
        g == [b \in Buckets |-> _find_terms(FallbackVocab[b], t)]
    IN  [counts |-> CountsOf(f, t, POS_RE),
         fcounts |-> CountsOf(g, t, RX_POS),
         found |-> f,
         ffound |-> g]

\* ---- the texts analysed
\* a phrase written out as a text
PhraseText(p, up) == [j \in 1..Len(p) |-> Tok(p[j], up, IF up THEN 2 ELSE 1)]
TokenSamples ==
    {Word("conflict"), Tok("conflict", TRUE, 2), Word("dimension"), Word("sk-1"), Dot}
ShortTexts == UNION {[1..n -> TokenSamples] : n \in 0..MaxWords}
PhraseTexts ==
    UNION {{PhraseText(RulesVocab[b][k], FALSE) : k \in 1..Len(RulesVocab[b])} : b \in Buckets}
    \cup UNION {{PhraseText(FallbackVocab[b][k], FALSE) : k \in 1..Len(FallbackVocab[b])} : b \in Buckets}
\* "Please clarify: is the detail for information only? No change required,
\*  for clarification only."
ScenarioText ==
    <<Tok("please", TRUE, 1), Tok("clarify", FALSE, 0), Tok(":", FALSE, 1),
      Word("is"), Word("the"), Word("detail"), Word("for"), Word("information"),
      Tok("only", FALSE, 0), Tok("?", FALSE, 1),
      Tok("no", TRUE, 1), Word("change"), Tok("required", FALSE, 0), Tok(",", FALSE, 1),
      Word("for"), Word("clarification"), Tok("only", FALSE, 0), Tok(".", FALSE, 0)>>
MatchTexts == ShortTexts \cup PhraseTexts \cup {ScenarioText}

InitMatch ==
    /\ PipelineIdle /\ DecideIdle /\ BatchIdle /\ NormIdle /\ AtomicIdle
    /\ mpc = "text"
    /\ mtext \in MatchTexts
    /\ mres = <<>>
    /\ mbase = <<>>
    /\ reps = 0
    /\ sks = 0

\* the matchers run over the text
Analyze ==
    /\ mpc = "text"
    /\ mres' = Found(mtext)
    /\ mbase' = Found(mtext)
    /\ mpc' = "analyzed"
    /\ UNCHANGED <<mtext, reps, sks>>
    /\ UNCHANGED <<pvars, dvars, bvars, nvars, avars>>

\* the same document with one more sentence, made of a phrase already found
\* in it, in capitals and with wider spaces, and the matchers run again
RepeatPhrase ==
    /\ mpc = "analyzed"
    /\ reps + sks < MaxReps
    /\ \E b \in Buckets :
         \E p \in {mres.found[b][k] : k \in 1..Len(mres.found[b])}
                  \cup {mres.ffound[b][k] : k \in 1..Len(mres.ffound[b])} :
            /\ mtext' = mtext \o <<Dot>> \o PhraseText(p, TRUE)
            /\ mres' = Found(mtext')
    /\ reps' = reps + 1
    /\ UNCHANGED <<mpc, mbase, sks>>
    /\ UNCHANGED <<pvars, dvars, bvars, nvars, avars>>

\* the same document with one more sentence holding a sketch reference
RepeatSketch ==
    /\ mpc = "analyzed"
    /\ reps + sks < MaxReps
    /\ mtext' = mtext \o <<Dot, Word("sk-1")>>
    /\ mres' = Found(mtext')
    /\ sks' = sks + 1
    /\ UNCHANGED <<mpc, mbase, reps>>
    /\ UNCHANGED <<pvars, dvars, bvars, nvars, avars>>

NextMatch == Analyze \/ RepeatPhrase \/ RepeatSketch

SpecMatch == InitMatch /\ [][NextMatch]_vars



\* ====================================================== RFI.py: _normalize_space
\* A string is its sequence of characters.
Chars == {"a", " ", "\t"}
IsSpace(c) == c \in {" ", "\t", "\n"}
NormInputs == UNION {[1..n -> Chars] : n \in 0..MaxStr}

\* the string from its first non-whitespace character on
RECURSIVE lstrip(_)
lstrip(s) ==
    IF s = <<>> THEN <<>>
    ELSE IF IsSpace(Head(s)) THEN lstrip(Tail(s))
    ELSE s

\* the string up to its last non-whitespace character
RECURSIVE rstrip(_)
rstrip(s) ==
    IF s = <<>> THEN <<>>
    ELSE IF IsSpace(s[Len(s)]) THEN rstrip(SubSeq(s, 1, Len(s) - 1))
    ELSE s

\* str.strip()
strip(s) == rstrip(lstrip(s))

\* re.sub(r"\s+", " ", s): every maximal run of whitespace becomes one space
RECURSIVE sub(_)
sub(s) ==
    IF s = <<>> THEN <<>>
    ELSE IF IsSpace(Head(s)) THEN <<" ">> \o sub(lstrip(s))
    ELSE <<Head(s)>> \o sub(Tail(s))

\* re.sub(r"\s\s", " ", s): every pair of whitespace characters becomes one space
RECURSIVE subPairs(_)
subPairs(s) ==
    IF s = <<>> THEN <<>>
    ELSE IF Len(s) >= 2 /\ IsSpace(s[1]) /\ IsSpace(s[2])
         THEN <<" ">> \o subPairs(SubSeq(s, 3, Len(s)))
    ELSE <<Head(s)>> \o subPairs(Tail(s))

\* the pattern \s\s instead of \s+
_normalize_space_Pairs(s) == strip(subPairs(s))

\* RFI.py lines 38-39
_normalize_space(s) == strip(sub(s))

InitNormalize ==
    /\ PipelineIdle /\ DecideIdle /\ BatchIdle /\ MatchIdle /\ AtomicIdle
    /\ npc = "input"
    /\ ns \in NormInputs
    /\ n1 = <<>>
    /\ n2 = <<>>

\* the extracted text is normalised
NormalizeOnce ==
    /\ npc = "input"
    /\ n1' = _normalize_space(ns)
    /\ npc' = "once"
    /\ UNCHANGED <<ns, n2>>
    /\ UNCHANGED <<pvars, dvars, bvars, mvars, avars>>

\* the normalised text is normalised again
NormalizeTwice ==
    /\ npc = "once"
    /\ n2' = _normalize_space(n1)
    /\ npc' = "twice"
    /\ UNCHANGED <<ns, n1>>
    /\ UNCHANGED <<pvars, dvars, bvars, mvars, avars>>

NextNormalize == NormalizeOnce \/ NormalizeTwice

SpecNormalize == InitNormalize /\ [][NextNormalize]_vars


\* ====================================================== main.py: _atomic_write
\* A file is "absent"/"none", "old" (what out_path held), "partial" (a write
\* that failed midway), "complete" or "new" (the frame fully written).
Kinds == {"excel", "csv"}

\* for i in range(1, attempts + 2)
MoreAttempts_OneMore(i) == i <= Attempts + 1

\* for i in range(1, attempts + 1)
MoreAttempts(i) == i <= Attempts

\* what a failed to_excel / to_csv leaves at its path
FailedWrite == {"none", "partial"}

\* tmp.unlink(missing_ok=True) inside try/except: pass; the removal may fail
\* (the file is still held open), and the failure is ignored
Unlink(f) == IF f = "none" THEN {"none"} ELSE {"none", f}

InitAtomic ==
    /\ PipelineIdle /\ DecideIdle /\ BatchIdle /\ MatchIdle /\ NormIdle
    /\ apc = "call"
    /\ ai = 0
    /\ kind \in Kinds
    /\ target0 \in {"absent", "old"}
    /\ target = target0
    /\ tmpfile = "none"
    /\ fb = "none"
    /\ aret = "none"
    /\ tries = 0
    /\ nperm = 0
    /\ left = 0

\* line 44: out_path.parent.mkdir, outside every try
Mkdir ==
    /\ apc = "call"
    /\ \/ apc' = "loop" /\ ai' = 1 /\ aret' = aret
       \/ /\ apc' = "raised"
          /\ aret' \in {"PermissionError", "Exception"}
          /\ ai' = ai
    /\ UNCHANGED <<kind, target, target0, tmpfile, fb, tries, nperm, left>>
    /\ UNCHANGED <<pvars, dvars, bvars, mvars, nvars>>

\* lines 46-47: the next turn of the loop, with a temporary path of its own
LoopTurn ==
    /\ apc = "loop"
    /\ MoreAttempts(ai)
    /\ apc' = "write"
    /\ tries' = tries + 1
    /\ left' = left + (IF tmpfile = "none" THEN 0 ELSE 1)
    /\ tmpfile' = "none"
    /\ UNCHANGED <<ai, kind, target, target0, fb, aret, nperm>>
    /\ UNCHANGED <<pvars, dvars, bvars, mvars, nvars>>

\* lines 49-52: df.to_excel(tmp) / df.to_csv(tmp)
WriteTmp ==
    /\ apc = "write"
    /\ \/ tmpfile' = "complete" /\ apc' = "replace"
       \/ tmpfile' \in FailedWrite /\ apc' = "except PermissionError"
       \/ tmpfile' \in FailedWrite /\ apc' = "except Exception"
    /\ UNCHANGED <<ai, kind, target, target0, fb, aret, tries, nperm, left>>
    /\ UNCHANGED <<pvars, dvars, bvars, mvars, nvars>>

\* lines 53-54: os.replace(tmp, out_path); return out_path
Replace ==
    /\ apc = "replace"
    /\ \/ /\ target' = (IF tmpfile = "complete" THEN "new" ELSE tmpfile)
          /\ tmpfile' = "none"
          /\ aret' = "out_path"
          /\ apc' = "returned"
       \/ /\ apc' \in {"except PermissionError", "except Exception"}
          /\ UNCHANGED <<target, tmpfile, aret>>
    /\ UNCHANGED <<ai, kind, target0, fb, tries, nperm, left>>
    /\ UNCHANGED <<pvars, dvars, bvars, mvars, nvars>>

\* lines 55-59: except PermissionError: unlink, sleep, next turn
ExceptPermissionError ==
    /\ apc = "except PermissionError"
    /\ nperm' = nperm + 1
    /\ tmpfile' \in Unlink(tmpfile)
    /\ ai' = ai + 1
    /\ apc' = "loop"
    /\ UNCHANGED <<kind, target, target0, fb, aret, tries, left>>
    /\ UNCHANGED <<pvars, dvars, bvars, mvars, nvars>>

\* lines 60-63: except Exception: unlink, raise
ExceptException ==
    /\ apc = "except Exception"
    /\ tmpfile' \in Unlink(tmpfile)
    /\ aret' = "Exception"
    /\ apc' = "raised"
    /\ UNCHANGED <<ai, kind, target, target0, fb, tries, nperm, left>>
    /\ UNCHANGED <<pvars, dvars, bvars, mvars, nvars>>

\* lines 64-70: the loop is over; the frame is written to the fallback path
\* {stem}_{timestamp}{suffix}, outside every try
Fallback ==
    /\ apc = "loop"
    /\ ~MoreAttempts(ai)
    /\ \/ fb' = "complete" /\ aret' = "fb" /\ apc' = "returned"
       \/ /\ fb' \in FailedWrite
          /\ aret' \in {"PermissionError", "Exception"}
          /\ apc' = "raised"
    /\ UNCHANGED <<ai, kind, target, target0, tmpfile, tries, nperm, left>>
    /\ UNCHANGED <<pvars, dvars, bvars, mvars, nvars>>

NextAtomic ==
    \/ Mkdir
    \/ LoopTurn
    \/ WriteTmp
    \/ Replace
    \/ ExceptPermissionError
    \/ ExceptException
    \/ Fallback

SpecAtomic == InitAtomic /\ [][NextAtomic]_vars


\* ==================================================================== claims
YesNo(b) == IF b THEN "Yes" ELSE "No"
Positive == {StrongSignal, MediumCombo, DisciplineAndSketch}

\* C1: the row process_pdf returns carries, as RequiresDrawingRevision and
\* DecisionBasis, the verdict and basis the rule cascade yields for the
\* category counts of the document's extracted text.  Stated here for the
\* documents the out-of-scope override (lines 226-228) leaves alone, so that a
\* violation is the classifier's and not the override's.
C1_RowCarriesCascadeVerdict ==
    (pc = "done" /\ ~out_of_scope) =>
        /\ result.row.RequiresDrawingRevision = YesNo(_decide(textFeat.c).req)
        /\ result.row.DecisionBasis = _decide(textFeat.c).basis

C3_StrongWins ==
    (dpc \in {"again", "done"} /\ dc.strong > 0) =>
        (dres.basis = StrongSignal /\ dres.req)
C3_Witness ==
    /\ dpc = "done"
    /\ dc.strong = 1 /\ dc.medium = MaxCount /\ dc.neg = MaxCount
    /\ dres.basis = StrongSignal

\* C4: a negator count > 0 with no strong and no medium phrase gives
\* NegatedOnly without requires_revision, whatever the discipline, weak,
\* sketch and positive-action counts are.
C4_NegatedOnly ==
    (dpc \in {"again", "done"} /\ dc.neg > 0 /\ dc.strong = 0 /\ dc.medium = 0) =>
        (dres.basis = NegatedOnly /\ ~dres.req)
C4_Witness ==
    /\ dpc = "done"
    /\ dc.neg = 2 /\ dc.strong = 0 /\ dc.medium = 0 /\ dc.disc = MaxCount /\ dc.sk > 0
    /\ dres.basis = NegatedOnly

\* C5: with no strong phrase, two medium phrases, or one medium and one
\* discipline phrase, give MediumCombo with requires_revision, negators or not.
C5_MediumCombo ==
    (/\ dpc \in {"again", "done"}
     /\ dc.strong = 0
     /\ (dc.medium >= 2 \/ (dc.medium >= 1 /\ dc.disc >= 1))) =>
        (dres.basis = MediumCombo /\ dres.req)
C5_Witness ==
    /\ dpc = "done"
    /\ dc.strong = 0 /\ dc.medium = 1 /\ dc.disc = 1 /\ dc.neg > 0
    /\ dres.basis = MediumCombo

\* C6: with no strong, medium or negator phrase, two discipline phrases and a
\* sketch reference or a positive action give Discipline+Sketch with
\* requires_revision.
C6_DisciplineAndSketch ==
    (/\ dpc \in {"again", "done"}
     /\ dc.strong = 0 /\ dc.medium = 0 /\ dc.neg = 0
     /\ dc.disc >= 2
     /\ (dc.sk > 0 \/ dc.posx > 0)) =>
        (dres.basis = DisciplineAndSketch /\ dres.req)
C6_Witness ==
    /\ dpc = "done"
    /\ dc = [ZeroCounts EXCEPT !.disc = 2, !.sk = 1]
    /\ dres = Decision(TRUE, DisciplineAndSketch, dc)

\* C7: when none of the NegatedOnly, StrongSignal, MediumCombo and
\* Discipline+Sketch rules applies the decision is "no revision", with basis
\* WeakSignal when a weak phrase was found and InsufficientSignal otherwise.
NoRuleApplies(c) ==
    /\ ~(c.neg > 0 /\ c.strong = 0 /\ c.medium = 0)
    /\ ~(c.strong > 0)
    /\ ~(c.medium >= 2 \/ (c.medium >= 1 /\ c.disc >= 1))
    /\ ~(c.disc >= 2 /\ (c.sk > 0 \/ c.posx > 0))
C7_WeakOrInsufficient ==
    (dpc \in {"again", "done"} /\ NoRuleApplies(dc)) =>
        /\ ~dres.req
        /\ dres.basis = IF dc.weak > 0 THEN WeakSignal ELSE InsufficientSignal
C7_Witness ==
    /\ dpc = "done" /\ NoRuleApplies(dc)
    /\ dc.weak = 1 /\ dc.medium = 1 /\ dc.neg = 1
    /\ dres.basis = WeakSignal

\* C8: when the first backend (PyMuPDF) yields text whose stripped length
\* reaches the acceptance threshold, no other native backend and no OCR is
\* invoked for the document, and the cascade returns that text with method
\* "pymupdf" and ocr_used false.
FirstBackendAccepted ==
    /\ doc.pymupdf.read
    /\ doc.pymupdf.ok
    /\ doc.pymupdf.text.body >= ACCEPT_LEN
C8_ShortCircuit ==
    FirstBackendAccepted =>
        /\ \A i \in 1..Len(calls) : calls[i] = "pymupdf"
        /\ ~doc.pdfminer.read /\ ~doc.pdfplumber.read /\ ~doc.ocr.read
        /\ pc = "returned" =>
              /\ calls = <<"pymupdf">>
              /\ ret.text = doc.pymupdf.text
              /\ ret.meta.method = "pymupdf"
              /\ ret.meta.ocr_used = FALSE
C8_Witness ==
    /\ pc = "returned" /\ call = 2
    /\ frame = NoFrame
    /\ doc.pymupdf.text.body = ACCEPT_LEN
    /\ calls = <<"pymupdf">>
    /\ ret.meta.method = "pymupdf"

\* C9: in every result the cascade returns, method is "none" exactly when the
\* returned text is empty.
C9_NoneIffEmpty ==
    pc = "returned" => (ret.meta.method = "none" <=> ret.text = EmptyText)

\* C10: in every result the cascade returns, ocr_used implies method "ocr",
\* and ocr_pages is 0 whenever ocr_used is false.
C10_OcrUsedMeansOcr ==
    pc = "returned" =>
        /\ ret.meta.ocr_used => ret.meta.method = "ocr"
        /\ ~ret.meta.ocr_used => ret.meta.ocr_pages = 0


\* ---- helpers of the cascade claims
Natives == <<"pymupdf", "pdfminer", "pdfplumber">>
NativeRan(e) == doc[e].read
\* what backend e handed to the cascade
NativeText(e) == IF doc[e].ok THEN doc[e].text ELSE EmptyText
AllNativeRead == \A i \in 1..3 : NativeRan(Natives[i])
NoneAccepted == \A i \in 1..3 : NativeText(Natives[i]).body < ACCEPT_LEN
\* the first backend, in priority order, whose stripped text is longest
Winner ==
    Natives[CHOOSE i \in 1..3 :
        /\ \A j \in 1..3 : NativeText(Natives[j]).body <= NativeText(Natives[i]).body
        /\ \A j \in 1..(i - 1) : NativeText(Natives[j]).body < NativeText(Natives[i]).body]
\* the page limit an invocation with argument m works with
LimitOf(m) == IF m # 0 THEN m ELSE OCR_DEFAULT_PAGES
\* the texts of the pages, among the first n, that image_to_string could read
GoodPages(pages, n) ==
    LET k == IF Len(pages) < n THEN Len(pages) ELSE n
        sel == SelectSeq(SubSeq(pages, 1, k), LAMBDA p : ~p.err)
    IN  [i \in 1..Len(sel) |-> sel[i].text]
OcrFailed(o) == o.dep # "ok" \/ o.pages = <<>>

\* C11: when all three native backends yield empty text and OCR is not
\* allowed, the cascade returns method "none", text "" and ocr_used false, and
\* OCR is never invoked.
C11_OcrGating ==
    (/\ pc = "returned"
     /\ ~ocr_if_needed
     /\ AllNativeRead
     /\ \A i \in 1..3 : NativeText(Natives[i]) = EmptyText) =>
        /\ ret.meta.method = "none"
        /\ ret.text = EmptyText
        /\ ret.meta.ocr_used = FALSE
        /\ ~doc.ocr.read
        /\ \A i \in 1..Len(calls) : calls[i] # "ocr"

\* C12: when no native backend reaches the acceptance threshold, the
\* best-effort text is the one with the longest stripped length among the three,
\* the backend tried first winning a tie, and the method tag names the backend
\* it came from ("none" when that backend, PyMuPDF, produced nothing because it
\* failed).
C12_BestEffort ==
    /\ pc = "ocr_gate" =>
          /\ AllNativeRead /\ NoneAccepted
          /\ frame.text = NativeText(Winner)
          /\ frame.best = IF doc[Winner].ok THEN Winner ELSE "none"
    /\ (pc = "returned" /\ calls = Natives /\ NoneAccepted) =>
          /\ ret.text = NativeText(Winner)
          /\ ret.meta.method = IF doc[Winner].ok THEN Winner ELSE "none"
C12_Witness ==
    /\ pc = "returned" /\ calls = Natives
    /\ doc.pymupdf.text.body = 10
    /\ doc.pdfminer.text.body = 29
    /\ doc.pdfplumber.text.body = 29
    /\ ret.meta.method = "pdfminer"

\* C13: once OCR is reached its text becomes the result, with method "ocr",
\* exactly when it is strictly longer (stripped) than the best native text; when
\* OCR fails (pdf2image or poppler missing, no page rendered) or its text is not
\* longer, the result is the best-effort native text with its method tag, and
\* the OCR failure reason is in the metadata.
C13_OcrOnlyIfLonger ==
    [][(pc = "ocr_gate" /\ frame.ocr_if_needed /\ pc' = "returned") =>
        LET o == doc'.ocr
            ocrText == IF OcrFailed(o) THEN EmptyText
                       ELSE JoinLines(GoodPages(o.pages, LimitOf(frame.ocr_max_pages)))
            longer == ocrText.body > frame.text.body
        IN  /\ (ret'.meta.method = "ocr") <=> longer
            /\ longer => ret'.text = ocrText
            /\ ~longer => (ret'.text = frame.text /\ ret'.meta.method = frame.best)
            /\ OcrFailed(o) =>
                  /\ ~longer
                  /\ ~ret'.meta.ocr.ok
                  /\ ret'.meta.ocr.error # ""]_vars
C13_Witness ==
    /\ pc = "returned"
    /\ ret.meta.ocr.error = "no_pages_from_poppler"
    /\ ret.meta.method = "pdfminer"
    /\ ret.text.body = 10

\* C14: the cascade never raises: a failing backend counts as having produced
\* empty text, its failure is recorded in its sub-result's error field, the
\* next backend is still tried, and a (possibly empty) text is returned.
CascadePcs == {"pymupdf", "pdfminer", "pdfplumber", "ocr_gate"}
C15_PageFailureSkipped ==
    (pc = "returned" /\ Len(calls) = 4 /\ ~OcrFailed(doc.ocr)) =>
        LET n == LimitOf(limits[call])
            k == IF Len(doc.ocr.pages) < n THEN Len(doc.ocr.pages) ELSE n
            expected == JoinLines(GoodPages(doc.ocr.pages, n))
            failing == {i \in 1..k : doc.ocr.pages[i].err}
        IN  /\ ret.meta.ocr.ok
            /\ ret.meta.ocr.pages = k
            /\ ret.meta.method = "ocr" => ret.text = expected
            /\ ret.meta.method # "ocr" => expected.body <= ret.text.body
            /\ failing = {} => ret.meta.ocr.first_page_error = ""
            /\ failing # {} =>
                  \E i \in failing :
                      /\ \A j \in failing : i <= j
                      /\ ret.meta.ocr.first_page_error = PageError(i)
C15_Witness ==
    /\ pc = "returned" /\ Len(calls) = 4
    /\ Len(doc.ocr.pages) = 2
    /\ doc.ocr.pages[1].err /\ ~doc.ocr.pages[2].err
    /\ ret.meta.method = "ocr"
    /\ ret.text.body = 20
    /\ ret.meta.ocr.first_page_error = PageError(1)


\* C16 as stated: whenever the first-pass text is shorter than 50 (stripped)
\* and OCR has not been run on the document, a second attempt is made.
C16_RetryWheneverOcrUntried ==
    (/\ pc = "classify"
     /\ attempts = 1
     /\ \A i \in 1..Len(calls) : calls[i] # "ocr") =>
        StripLen(text) >= MIN_OK_LEN

\* C16 (amended): if the first-pass text is shorter than 50 (stripped) and the
\* caller enabled OCR, the cascade is invoked a second time with OCR forced on
\* and page limit max(original_limit, 20), and attempts is 2; with OCR disabled
\* by the caller there is no second attempt, however short the text.
C16_RetryEscalation ==
    /\ (pc = "classify" /\ attempts = 1) =>
          (StripLen(text) >= MIN_OK_LEN \/ ~ocr_if_needed)
    /\ attempts = 2 =>
          /\ ocr_if_needed /\ forced
          /\ call = 2
          /\ StripLen(text) < MIN_OK_LEN \/ pc \in {"classify", "finish", "done"}
          /\ limits[2] = Max(ocr_max_pages, RETRY_PAGES)
          /\ limits[2] >= 20 /\ limits[2] >= ocr_max_pages
          /\ pc \in CascadePcs => (frame.ocr_if_needed /\ frame.ocr_max_pages = limits[2])
    /\ ~ocr_if_needed => (call <= 1 /\ attempts <= 1 /\ ~forced)
    /\ (pc = "done" /\ result.ok) =>
          (result.meta.attempts = attempts
           /\ result.meta.forced_second_attempt = (attempts = 2))
C16_Witness ==
    /\ pc = "done" /\ result.ok
    /\ result.meta.attempts = 2
    /\ doc.pymupdf.text.body = 10
    /\ ocr_max_pages = 1 /\ limits = <<1, 20>>
    /\ StripLen(text) = 10

\* C17: the cascade is invoked at most twice per document (attempts is 1 or
\* 2); after a second attempt its text and metadata are kept, together, exactly
\* when its text is strictly longer (stripped) than the first's, otherwise the
\* first attempt's text and metadata stay; the audit's method, ocr_used,
\* ocr_pages and text_len are those of the attempt whose text is final.
C17_AtMostTwoKeepLonger ==
    /\ [](/\ call \in 0..2 /\ attempts \in 0..2 /\ Len(limits) = call
          /\ pc \in {"classify", "finish", "done"} =>
                (attempts \in {1, 2} /\ attempts = call /\ meta.text_len = StrLen(text))
          /\ pc = "done" => result.meta.attempts \in {1, 2}
          /\ (pc = "done" /\ result.ok) =>
                /\ result.meta.attempts = attempts
                /\ result.meta.method = meta.method
                /\ result.meta.ocr_used = meta.ocr_used
                /\ result.meta.ocr_pages = meta.ocr_pages
                /\ result.meta.text_len = StrLen(text))
    /\ [][(pc = "returned" /\ call = 2) =>
            /\ pc' = "classify" /\ call' = 2 /\ attempts' = 2
            /\ IF ret.text.body > text.body
               THEN text' = ret.text /\ meta' = ret.meta
               ELSE text' = text /\ meta' = meta]_vars
\* a tie: the second attempt ran OCR over more pages and got nothing longer
C17_Witness ==
    /\ pc = "done" /\ result.ok
    /\ attempts = 2
    /\ limits = <<1, 20>>
    /\ Len(doc.ocr.pages) = 2 /\ doc.ocr.dep = "ok"
    /\ StripLen(text) = 20
    /\ ~doc.ocr.pages[1].err /\ doc.ocr.pages[1].text.body = 20
    /\ doc.ocr.pages[2].err
    /\ result.meta.ocr_pages = 1


Kept == IF limit = 0 \/ limit > Len(tasks) THEN Len(tasks) ELSE limit
\* the (row, audit) pairs in the order collected
Collected == [i \in 1..Len(rows) |-> <<rows[i], audit[i]>>]
\* the pairs a sequential pass over the same tasks gives
Sequential ==
    [i \in 1..Len(all_tasks) |->
        <<ProcessPdf(all_tasks[i]).row, ProcessPdf(all_tasks[i]).meta>>]
Occurrences(sq, x) == Cardinality({i \in 1..Len(sq) : sq[i] = x})
SameMultiset(a, b) ==
    /\ Len(a) = Len(b)
    /\ \A i \in 1..Len(a) : Occurrences(a, a[i]) = Occurrences(b, a[i])

\* C18: run_local always returns, and when it does there is exactly one row
\* and exactly one audit record for every discovered task kept by the optional
\* limit, each carrying a status (ok, ok_warn or error), whichever of the
\* documents end with warnings or as failed tasks.
C18_BatchCompletes ==
    /\ <>(bpc = "returned")
    /\ [](bpc = "returned" =>
            /\ Len(rows) = Kept /\ Len(audit) = Kept
            /\ \A i \in 1..Kept :
                  /\ Cardinality({j \in 1..Len(rows) :
                                    rows[j].LocalPath = tasks[i].pdf_path}) = 1
                  /\ Cardinality({j \in 1..Len(audit) :
                                    audit[j].pdf = tasks[i].pdf_path}) = 1
                  /\ \A j \in 1..Len(rows) :
                        rows[j].LocalPath = tasks[i].pdf_path =>
                            rows[j].Status = tasks[i].outcome
            /\ \A j \in 1..Len(rows) :
                  rows[j].Status \in Outcomes /\ audit[j].status \in Outcomes)
C18_Witness ==
    /\ bpc = "returned"
    /\ Len(tasks) = 3 /\ limit = 2 /\ workers = 2
    /\ tasks[1].outcome = "ok_warn" /\ tasks[2].outcome = "error"
    /\ rows = <<[LocalPath |-> 2, Status |-> "error"],
                [LocalPath |-> 1, Status |-> "ok_warn"]>>

\* C20: whatever the number of worker processes and the order in which the
\* tasks end and are collected, the i-th collected row and the i-th collected
\* audit record are those of the same document, and at the end the multiset of
\* (row, audit) pairs is the one a sequential pass over the same tasks gives.
C20_OrderIndependent ==
    /\ Len(rows) = Len(audit)
    /\ \A i \in 1..Len(rows) :
          /\ rows[i].LocalPath = audit[i].pdf
          /\ rows[i].Status = audit[i].status
    /\ bpc = "returned" => SameMultiset(Collected, Sequential)
    /\ (bpc = "returned" /\ workers = 1) => Collected = Sequential
C20_Witness ==
    /\ bpc = "returned"
    /\ workers = 2 /\ Len(all_tasks) = 3
    /\ rows[1].LocalPath = 2 /\ rows[2].LocalPath = 3 /\ rows[3].LocalPath = 1
    /\ audit[1].pdf = 2
    /\ tasks[1].outcome = "error" /\ tasks[2].outcome = "ok"


\* C24: classify always returns a complete classification dict: when the
\* rules module was imported and the call into it raises, the dict is the one
\* the built-in fallback decision gives for the text's counts, and no exception
\* leaves classify.
C24_ClassifyFallsBack ==
    pc = "finish" =>
        LET r == classify(RULES, textFeat.c) IN
        /\ r.raised = ""
        /\ cls = r.cls
        /\ cls.DecisionBasis = _decide(textFeat.c).basis
        /\ cls.StrongCount = textFeat.c.strong

\* C26: when the text names an area letter outside G-K, no G-K letter, no
\* G-K range and no Phase 2, the row's RequiresDrawingRevision is "No" and
\* every other classification field, DecisionBasis included, is as
\* classification produced it; otherwise RequiresDrawingRevision too is as
\* classification produced it.
C26_OutOfScopeOverride ==
    (pc = "done" /\ result.ok) =>
        LET r == classify(RULES, textFeat.c)
            produced == IF r.raised = "" THEN r.cls ELSE DefaultCls
            a == textFeat.area
            all == a.loc \o a.any
            outside == \E i \in 1..Len(all) : all[i] \notin G_TO_K
            inside == \E i \in 1..Len(all) : all[i] \in G_TO_K
        IN  /\ out_of_scope <=> (outside /\ ~inside /\ ~a.range /\ ~a.phase)
            /\ out_of_scope => result.row.RequiresDrawingRevision = "No"
            /\ ~out_of_scope =>
                  result.row.RequiresDrawingRevision = produced.RequiresDrawingRevision
            /\ result.row.DecisionBasis = produced.DecisionBasis
            /\ \A f \in DOMAIN produced \ {"RequiresDrawingRevision"} :
                  cls[f] = produced[f]
C26_Witness ==
    /\ pc = "done" /\ result.ok
    /\ out_of_scope
    /\ RULES = "None"
    /\ textFeat.c.strong = 1
    /\ textFeat.area.loc = <<"C">>
    /\ result.row.RequiresDrawingRevision = "No"
    /\ result.row.DecisionBasis = StrongSignal

\* C27: in the audit of a non-error result attempts is 2 exactly when
\* forced_second_attempt is true, exactly when the first-pass text was shorter
\* than 50 (stripped) with OCR enabled; with OCR disabled the cascade is
\* invoked once and OCR is never run, however short the text.
C27_AttemptsIffForced ==
    /\ (pc = "done" /\ result.ok) =>
          /\ result.meta.attempts \in {1, 2}
          /\ result.meta.attempts = call
          /\ result.meta.attempts = 2 <=> result.meta.forced_second_attempt
    \* while and after the second invocation runs, text is still the first-pass text
    /\ (call = 2 /\ pc \in CascadePcs \cup {"returned"}) =>
          (StripLen(text) < MIN_OK_LEN /\ ocr_if_needed)
    /\ (call = 1 /\ pc = "classify") =>
          ~(StripLen(text) < MIN_OK_LEN /\ ocr_if_needed)
    /\ ~ocr_if_needed =>
          /\ call <= 1
          /\ ~doc.ocr.read
          /\ \A i \in 1..Len(calls) : calls[i] # "ocr"
C27_Witness ==
    /\ pc = "done" /\ result.ok
    /\ ~ocr_if_needed
    /\ StripLen(text) = 10
    /\ calls = Natives
    /\ result.meta.attempts = 1
    /\ ~result.meta.forced_second_attempt

\* C28: when a native backend yields a text of stripped length at least 30
\* and below 50 and OCR is enabled, a second attempt is made, both attempts
\* return that backend's text before reaching OCR, OCR is never invoked, and
\* the final text and method are the first attempt's.
C28_ThresholdGap ==
    \A i \in 1..3 :
        LET e == Natives[i] IN
        (/\ ocr_if_needed
         /\ doc[e].read /\ doc[e].ok
         /\ doc[e].text.body >= ACCEPT_LEN /\ doc[e].text.body < MIN_OK_LEN) =>
            /\ ~doc.ocr.read
            /\ \A j \in 1..Len(calls) : calls[j] # "ocr"
            /\ pc = "returned" =>
                  (ret.text = doc[e].text /\ ret.meta.method = e /\ ~ret.meta.ocr_used)
            /\ pc \in {"classify", "finish"} =>
                  /\ call = 2 /\ attempts = 2 /\ forced
                  /\ text = doc[e].text /\ meta.method = e
            /\ (pc = "done" /\ result.ok) =>
                  /\ result.meta.attempts = 2
                  /\ text = doc[e].text
                  /\ result.meta.method = e
                  /\ ~result.meta.ocr_used
C28_Witness ==
    /\ pc = "done" /\ result.ok
    /\ ocr_if_needed
    /\ doc.pdfminer.ok /\ doc.pdfminer.text.body = 49
    /\ result.meta.attempts = 2
    /\ result.meta.method = "pdfminer"
    /\ ~doc.ocr.read

\* C29: when _decide answers "requires revision" for some counts, it still
\* does after the strong count or the medium count is increased, the other
\* counts unchanged.
C29_MonotoneInPositive ==
    (dpc \in {"again", "done"} /\ dres.req) =>
        \A k \in 1..(MaxCount + 1) :
            /\ _decide([dc EXCEPT !.strong = @ + k]).req
            /\ _decide([dc EXCEPT !.medium = @ + k]).req
C29_Witness ==
    /\ dpc = "done"
    /\ dres.req
    /\ dres.basis = DisciplineAndSketch
    /\ _decide([dc EXCEPT !.medium = @ + 1]).basis = MediumCombo
    /\ _decide([dc EXCEPT !.strong = @ + 1]).basis = StrongSignal

\* ---- the phrase matchers
\* the distinct normalised phrases a vocabulary matches in a text
Distinct(V, t) == {finditer(V, t, 1)[k] : k \in 1..Len(finditer(V, t, 1))}

\* C21: each of the five vocabulary counts, of rules.py and of the fallback
\* alike, is the number of distinct normalised phrases matched in the text,
\* so a sentence repeating an already matched phrase (in capitals, with wider
\* spaces) leaves all five unchanged; the sketch-reference count is the number
\* of occurrences, so every further reference adds one.
C21_CountsDistinctPhrases ==
    mpc = "analyzed" =>
        /\ \A b \in Buckets :
              /\ mres.counts[b] = Cardinality(Distinct(RulesVocab[b], mtext))
              /\ mres.fcounts[b] = Cardinality(Distinct(FallbackVocab[b], mtext))
              /\ mres.counts[b] = mbase.counts[b]
              /\ mres.fcounts[b] = mbase.fcounts[b]
        /\ mres.counts.sk = mbase.counts.sk + sks
        /\ mres.fcounts.sk = mbase.fcounts.sk + sks
        /\ mres.counts.sk = Cardinality({i \in 1..Len(mtext) : mtext[i].w \in SkRefs})
C21_Witness ==
    /\ mpc = "analyzed"
    /\ reps = 1
    /\ sks = 1
    /\ mres.counts.strong = 1
    /\ Len(finditer(RulesVocab.strong, mtext, 1)) = 3
    /\ mres.counts.sk = 1

\* C22: for "Please clarify: is the detail for information only? No change
\* required, for clarification only." the matchers count at least one negator,
\* no strong and no medium phrase, and the decision is "no revision" on the
\* basis NegatedOnly.
C22_NegatedScenario ==
    (mpc = "analyzed" /\ mtext = ScenarioText) =>
        /\ mres.counts.neg >= 1 /\ mres.counts.strong = 0 /\ mres.counts.medium = 0
        /\ mres.fcounts.neg >= 1 /\ mres.fcounts.strong = 0 /\ mres.fcounts.medium = 0
        /\ _decide(mres.fcounts).req = FALSE
        /\ _decide(mres.fcounts).basis = NegatedOnly

\* C25: every phrase listed in a vocabulary is found by that vocabulary's
\* matcher: a text made of the phrase alone yields exactly that phrase,
\* whatever phrases are listed before it.
C25_EveryPhraseFindable ==
    (mpc = "analyzed" /\ reps = 0 /\ sks = 0) =>
        \A b \in Buckets :
            /\ \A k \in 1..Len(RulesVocab[b]) :
                  mtext = PhraseText(RulesVocab[b][k], FALSE)
                  => mres.found[b] = <<RulesVocab[b][k]>>
            /\ \A k \in 1..Len(FallbackVocab[b]) :
                  mtext = PhraseText(FallbackVocab[b][k], FALSE)
                  => mres.ffound[b] = <<FallbackVocab[b][k]>>

\* ---- whitespace normalisation
\* C23: whitespace normalisation is idempotent: normalising a normalised
\* string gives the same string, for every input, the empty and the
\* whitespace-only ones included (which both normalise to the empty string).
C23_NormalizeIdempotent ==
    /\ npc \in {"once", "twice"} =>
          ((\A i \in 1..Len(ns) : IsSpace(ns[i])) => n1 = <<>>)
    /\ npc = "twice" => n2 = n1
C23_Witness ==
    /\ npc = "twice"
    /\ Len(ns) = 5
    /\ IsSpace(ns[1])
    /\ \E i \in 2..(Len(ns) - 2) : IsSpace(ns[i]) /\ IsSpace(ns[i + 1])
    /\ n1 = <<"a", " ", "a">>

\* ---- _atomic_write
\* what holds of the target, of the number of turns and of the exceptions
\* other than PermissionError raised inside the loop
AtomicCore ==
    /\ target \in {target0, "new"}
    /\ target # target0 => (apc = "returned" /\ aret = "out_path")
    /\ aret = "out_path" => (target = "new" /\ tmpfile = "none")
    /\ tries <= Attempts
    /\ nperm <= tries
    /\ fb # "none" => (nperm = Attempts /\ tries = Attempts /\ target = target0)
    /\ (apc = "raised" /\ tries > 0 /\ nperm < Attempts)
          => (aret = "Exception" /\ nperm = tries - 1 /\ fb = "none" /\ target = target0)

\* C30 as stated: the target is never partially written and changes only by
\* the replacement with a completely written temporary file; a
\* PermissionError removes the temporary file and retries, at most Attempts
\* turns in all; after that many PermissionErrors the frame is written to the
\* fallback path, which is returned, the target untouched; any other
\* exception removes the temporary file and propagates at once.
C30_AsStated ==
    /\ AtomicCore
    /\ (apc = "loop" \/ apc = "raised") => tmpfile = "none"
    /\ left = 0
    /\ (nperm = Attempts /\ apc \in {"returned", "raised"})
          => (apc = "returned" /\ aret = "fb" /\ fb = "complete")

\* C30: the target is never partially written and changes only by the
\* replacement with a completely written temporary file; a PermissionError
\* of the write or of the replacement is retried, at most Attempts turns in
\* all; after that many PermissionErrors the frame is written directly to the
\* fallback path, which is returned when that write succeeds, the target
\* untouched; any other exception of the write or the replacement propagates
\* at once.  The removal of the temporary file is only attempted (its failure
\* is ignored and leaves the file), and an exception of the directory
\* creation or of the fallback write, a PermissionError included, propagates.
C30_AtomicWrite ==
    /\ AtomicCore
    /\ left <= nperm
    /\ aret = "fb" <=> (apc = "returned" /\ nperm = Attempts)
    /\ aret = "fb" => (fb = "complete" /\ target = target0)
    /\ (apc = "raised" /\ aret = "PermissionError")
          => (tries = 0 \/ (nperm = Attempts /\ fb \in FailedWrite))
C30_Witness ==
    /\ apc = "returned"
    /\ aret = "fb"
    /\ nperm = Attempts
    /\ tries = Attempts
    /\ left > 0
    /\ target0 = "old"
    /\ target = "old"
====
